---- MODULE Spec2Model ----
(***************************************************************************)
(* Battleoids: the session orchestrator (Game), the player's ship, the     *)
(* input handlers and the high-score boundary, as a state machine.         *)
(*                                                                         *)
(* Fixed point.  Time is counted in ticks of 1/20 s, velocity in 1/2 px/s  *)
(* and position in 1/40 px, so that position += velocity * dt and          *)
(* velocity += acceleration * dt are exact on integers.  Every constant    *)
(* below is the source's value converted to these units.                   *)
(*                                                                         *)
(* Geometry that the source computes with sqrt/atan2 on real coordinates   *)
(* (which circles overlap in a frame) and every Math.random() draw is an   *)
(* input o.<field> of the frame, chosen by the specification's Next.       *)
(* Rendering, audio, the glow toggle and the hyperspace particles do not   *)
(* feed back into the state and are left out.                              *)
(***************************************************************************)
EXTENDS Integers, Sequences, FiniteSets, TLC

\* ---------------------------------------------------------------- CONFIG
screen_width == 32000
screen_height == 24000
ship_thrustPower == 20
ship_maxSpeed == 800
ship_radius == 480
ship_invulnerabilityOnSpawn == 60
hyperspace_shrinkTime == 6
hyperspace_warpTime == 4
hyperspace_expandTime == 6
hyperspace_cooldown == 100
hyperspace_invulnerability == 40
bullet_lifetime == 30
bullet_fireCooldown == 5
asteroid_startingCount == 4
asteroid_large_points == 20
asteroid_medium_points == 50
asteroid_small_points == 100
ufo_large_radius == 800
ufo_small_radius == 480
ufo_large_speed == 200
ufo_small_speed == 300
ufo_large_points == 200
ufo_small_points == 1000
ufo_large_shootCooldown == 40
ufo_small_shootCooldown == 20
ufo_shootDelayMin == 10
ufo_spawnDelay_min == 300
ufo_spawnDelay_max == 600
gravityWell_spawnDelay_min == 400
gravityWell_spawnDelay_max == 800
gravityWell_duration_min == 120
gravityWell_duration_max == 200
gravityWell_spawnMargin == 4000
gravityWell_spawnMinDistanceFromShip == 6000
timing_respawnDelay == 40
timing_gameOverReturnDelay == 200
timing_maxDeltaTime == 2
visual_debrisLifetime == 30
initialState_score == 0
initialState_lives == 3
initialState_level == 1
debug_disablePlayerCollision == TRUE
debug_alwaysShowGravityWell == FALSE
highScores_displayCount == 10
textInput_minLength == 3
textInput_maxLength == 20

\* ---------------------------------------------------------------- bounds
\* CONFIG.timing.menuDisplayDuration / scoresDisplayDuration, in ticks
MenuDisplayDuration == 3
ScoresDisplayDuration == 3
\* simulated ticks of one game after which no further playing frame is taken
MaxPlayClock == 830
\* accumulated ticks after which no further frame is taken (hyperspace runs)
MaxHyperClock == 18
\* longest name typed into the score entry
MaxNameLen == 3
\* score submissions in flight at once
MaxPending == 1
\* ticks a hostile bullet flies before it reaches the ship
BulletFlight == 4
\* simulated ticks of a game that the player may abandon
MaxAbandonClock == 40
\* simulated ticks of the game in which the player meets the saucers
MaxSaucerClock == 780
MaxPullClock == 440
MaxCount == 2
\* accumulated ticks after which no further frame is taken (shooting runs)
MaxShootClock == 180
\* ticks a bullet of the player flies before it reaches the rocks
ShotFlight == 4
\* ticks of the game-over countdown within which the player restarts
RestartWindow == 2
\* loadScores calls in flight at once
MaxFetch == 1
\* submissions and reloads one score entry may have in flight (entry runs)
MaxSubmits == 2
\* ticks of play after which the service has answered every request
StaleWindow == 4
\* speed the player builds up by thrust before releasing the key
MaxThrustSpeed == 20
\* simulated ticks of the game in which the player jumps under fire
MaxEvadeClock == 440

Min(a, b) == IF a < b THEN a ELSE b
Max(a, b) == IF a > b THEN a ELSE b

\* ------------------------------------------------------------------ Ship
Centre == <<screen_width \div 2, screen_height \div 2>>

add(a, b) == <<a[1] + b[1], a[2] + b[2]>>
scale(v, k) == <<v[1] * k, v[2] * k>>

\* angleToVector(rotation) for rotation = 0: the nose of SHIP_SHAPE, (0,-15)
Heading == <<0, -1>>

NewShip ==
  [ position |-> Centre, velocity |-> <<0, 0>>, isActive |-> TRUE,
    isThrusting |-> FALSE, invulnerableTime |-> 0,
    hyperspaceState |-> "idle", hyperspaceTimer |-> 0,
    hyperspaceCooldown |-> 0, hyperspaceTargetPosition |-> <<0, 0>> ]

reset(s, p) ==
  [s EXCEPT !.position = p, !.velocity = <<0, 0>>, !.isActive = TRUE,
            !.invulnerableTime = ship_invulnerabilityOnSpawn]

\* the clamp of Ship.thrust left out
capSpeed_Unbounded(v) == v

\* the heading is axis-aligned, so the clamp to maxSpeed is exact
capSpeed(v) ==
  IF v[1] * v[1] + v[2] * v[2] > ship_maxSpeed * ship_maxSpeed
  THEN IF v[1] = 0
       THEN <<0, IF v[2] < 0 THEN -ship_maxSpeed ELSE ship_maxSpeed>>
       ELSE IF v[2] = 0
            THEN <<IF v[1] < 0 THEN -ship_maxSpeed ELSE ship_maxSpeed, 0>>
            ELSE v
  ELSE v

thrust(s, dt) ==
  [s EXCEPT !.isThrusting = TRUE,
            !.velocity = capSpeed(add(s.velocity, scale(Heading, ship_thrustPower * dt)))]

\* the phase step that teleports without stopping the ship
hyperspacePhase_KeepsVelocity(s, dt) ==
  IF s.hyperspaceState = "idle" THEN s
  ELSE LET t == s.hyperspaceTimer + dt
       IN CASE s.hyperspaceState = "shrinking" ->
                 IF t >= hyperspace_shrinkTime
                 THEN [s EXCEPT !.hyperspaceState = "warping", !.hyperspaceTimer = 0]
                 ELSE [s EXCEPT !.hyperspaceTimer = t]
            [] s.hyperspaceState = "warping" ->
                 IF t >= hyperspace_warpTime
                 THEN [s EXCEPT !.position = s.hyperspaceTargetPosition,
                                !.hyperspaceState = "expanding",
                                !.hyperspaceTimer = 0]
                 ELSE [s EXCEPT !.hyperspaceTimer = t]
            [] OTHER ->
                 IF t >= hyperspace_expandTime
                 THEN [s EXCEPT !.hyperspaceState = "idle", !.hyperspaceTimer = 0,
                                !.hyperspaceCooldown = hyperspace_cooldown]
                 ELSE [s EXCEPT !.hyperspaceTimer = t]

\* the switch of Ship.update: one phase step of the hyperspace animation
hyperspacePhase(s, dt) ==
  IF s.hyperspaceState = "idle" THEN s
  ELSE LET t == s.hyperspaceTimer + dt
       IN CASE s.hyperspaceState = "shrinking" ->
                 IF t >= hyperspace_shrinkTime
                 THEN [s EXCEPT !.hyperspaceState = "warping", !.hyperspaceTimer = 0]
                 ELSE [s EXCEPT !.hyperspaceTimer = t]
            [] s.hyperspaceState = "warping" ->
                 IF t >= hyperspace_warpTime
                 THEN [s EXCEPT !.position = s.hyperspaceTargetPosition,
                                !.velocity = <<0, 0>>,
                                !.hyperspaceState = "expanding",
                                !.hyperspaceTimer = 0]
                 ELSE [s EXCEPT !.hyperspaceTimer = t]
            [] OTHER ->
                 IF t >= hyperspace_expandTime
                 THEN [s EXCEPT !.hyperspaceState = "idle", !.hyperspaceTimer = 0,
                                !.hyperspaceCooldown = hyperspace_cooldown]
                 ELSE [s EXCEPT !.hyperspaceTimer = t]

\* Ship.update that counts the cooldown down before the phase step
ShipUpdate_CooldownFirst(s, dt) ==
  LET s1 == IF s.hyperspaceCooldown > 0
            THEN [s EXCEPT !.hyperspaceCooldown = @ - dt] ELSE s
      s2 == hyperspacePhase(s1, dt)
      s3 == IF s2.hyperspaceState # "warping"
            THEN [s2 EXCEPT !.position = add(@, scale(s2.velocity, dt))] ELSE s2
  IN IF s3.invulnerableTime > 0
     THEN [s3 EXCEPT !.invulnerableTime = @ - dt] ELSE s3

ShipUpdate(s, dt) ==
  LET s1 == hyperspacePhase(s, dt)
      s2 == IF s1.hyperspaceCooldown > 0
            THEN [s1 EXCEPT !.hyperspaceCooldown = @ - dt] ELSE s1
      s3 == IF s2.hyperspaceState # "warping"
            THEN [s2 EXCEPT !.position = add(@, scale(s2.velocity, dt))] ELSE s2
  IN IF s3.invulnerableTime > 0
     THEN [s3 EXCEPT !.invulnerableTime = @ - dt] ELSE s3

\* isInvulnerable that never holds
isInvulnerable_Never(s) == s.invulnerableTime > s.invulnerableTime
isInvulnerable(s) == s.invulnerableTime > 0
isInHyperspace(s) == s.hyperspaceState # "idle"
\* canHyperspace that forgets the cooldown
canHyperspace_NoCooldown(s) == s.hyperspaceState = "idle"
canHyperspace(s) == s.hyperspaceState = "idle" /\ s.hyperspaceCooldown <= 0

\* activateHyperspace that grants only the grace period
activateHyperspace_GraceOnly(s, target) ==
  IF ~canHyperspace(s) THEN s
  ELSE [s EXCEPT !.hyperspaceState = "shrinking", !.hyperspaceTimer = 0,
                 !.hyperspaceTargetPosition = target,
                 !.invulnerableTime = hyperspace_invulnerability]

activateHyperspace(s, target) ==
  IF ~canHyperspace(s) THEN s
  ELSE [s EXCEPT !.hyperspaceState = "shrinking", !.hyperspaceTimer = 0,
                 !.hyperspaceTargetPosition = target,
                 !.invulnerableTime =
                    Max(@, hyperspace_shrinkTime + hyperspace_warpTime
                           + hyperspace_expandTime + hyperspace_invulnerability)]

\* the wrap that also moves an entity lying exactly on the outer line
wrapCoord_Inclusive(c, size, margin) ==
  IF c <= -margin THEN size + margin
  ELSE IF c >= size + margin THEN -margin ELSE c

wrapCoord(c, size, margin) ==
  IF c < -margin THEN size + margin
  ELSE IF c > size + margin THEN -margin ELSE c

wrapEntity(p, radius) ==
  <<wrapCoord(p[1], screen_width, radius), wrapCoord(p[2], screen_height, radius)>>

\* ---------------------------------------------------------- InputHandler
NoKeys == [thrust |-> FALSE, fire |-> FALSE, hyperspace |-> FALSE]

NewInput ==
  [ keys |-> NoKeys, firePressed |-> FALSE, startPressed |-> FALSE,
    spaceWasReleased |-> TRUE, hyperspacePressed |-> FALSE,
    menuPressed |-> FALSE ]

\* InputHandler.updateKey(code, isDown)
updateKey(i, code, isDown) ==
  CASE code = "ArrowUp" -> [i EXCEPT !.keys.thrust = isDown]
    [] code = "Space" ->
         IF isDown
         THEN IF i.spaceWasReleased
              THEN [i EXCEPT !.keys.fire = TRUE, !.firePressed = TRUE,
                             !.startPressed = TRUE, !.spaceWasReleased = FALSE]
              ELSE [i EXCEPT !.keys.fire = TRUE, !.firePressed = TRUE]
         ELSE [i EXCEPT !.keys.fire = FALSE, !.spaceWasReleased = TRUE]
    [] code = "KeyH" ->
         IF isDown
         THEN [i EXCEPT !.keys.hyperspace = TRUE, !.hyperspacePressed = TRUE]
         ELSE [i EXCEPT !.keys.hyperspace = FALSE]
    [] code = "Escape" -> IF isDown THEN [i EXCEPT !.menuPressed = TRUE] ELSE i
    [] OTHER -> i

clearAll(i) == NewInput

\* ----------------------------------------------------- TextInputHandler
NewTextInput ==
  [ text |-> <<>>, active |-> FALSE, submitPressed |-> FALSE,
    cancelPressed |-> FALSE ]

activate(t) ==
  IF t.active THEN t
  ELSE [t EXCEPT !.active = TRUE, !.text = <<>>, !.submitPressed = FALSE,
                 !.cancelPressed = FALSE]

deactivate(t) == IF ~t.active THEN t ELSE [t EXCEPT !.active = FALSE]

\* TextInputHandler.handleKeyDown(e); key is "Enter", "Escape", "Backspace"
\* or a single character
handleKeyDown(t, key) ==
  IF ~t.active THEN t
  ELSE CASE key = "Enter" -> [t EXCEPT !.submitPressed = TRUE]
         [] key = "Escape" -> [t EXCEPT !.cancelPressed = TRUE]
         [] key = "Backspace" ->
              IF Len(t.text) > 0
              THEN [t EXCEPT !.text = SubSeq(@, 1, Len(@) - 1)] ELSE t
         [] OTHER ->
              IF Len(t.text) < textInput_maxLength
              THEN [t EXCEPT !.text = Append(@, key)] ELSE t

RECURSIVE trim(_)
trim(txt) ==
  IF txt = <<>> THEN txt
  ELSE IF Head(txt) = " " THEN trim(Tail(txt))
  ELSE IF txt[Len(txt)] = " " THEN trim(SubSeq(txt, 1, Len(txt) - 1))
  ELSE txt

isValid(t) ==
  /\ Len(trim(t.text)) >= textInput_minLength
  /\ Len(trim(t.text)) <= textInput_maxLength

\* ----------------------------------------------------- HighScoreManager
\* scores: the cached list, as the sequence of its score fields
\* isHighScore that lets a score equal to the lowest listed one in
isHighScore_Ties(scores, score) ==
  IF Len(scores) < highScores_displayCount THEN TRUE
  ELSE score >= scores[Len(scores)]

isHighScore(scores, score) ==
  IF Len(scores) < highScores_displayCount THEN TRUE
  ELSE score > scores[Len(scores)]

\* ------------------------------------------------------ high-score api
\* what the service does with one request: the connection fails, the
\* request outlives API_TIMEOUT and is aborted, the service answers with a
\* status that is not OK, or it answers OK with a body
Answers == {"unreachable", "timeout", "nonOK", "ok"}
FailedAnswers == Answers \ {"ok"}

\* the outcome of a call: whether it threw (its promise rejected) and, if
\* not, its value
Returned(v) == [threw |-> FALSE, value |-> v]
Thrown == [threw |-> TRUE, value |-> <<>>]

\* fetchHighScores whose catch block throws the error on
fetchHighScores_Rethrows(answer, list) ==
  LET body == IF answer = "ok" THEN Returned(list) ELSE Thrown
  IN body

\* fetchHighScores: fetch rejects when the connection fails or the request
\* is aborted, a non-OK status is thrown as an Error, and the catch block
\* returns the empty list
fetchHighScores(answer, list) ==
  LET body == IF answer = "ok" THEN Returned(list) ELSE Thrown
  IN IF body.threw THEN Returned(<<>>) ELSE body

\* submitHighScore: a non-OK status is returned as a failure, and the catch
\* block returns a failure for a rejected fetch
submitHighScore(answer, accepted) ==
  LET body == CASE answer \in {"unreachable", "timeout"} -> Thrown
                [] answer = "nonOK" -> Returned([success |-> FALSE])
                [] OTHER -> Returned([success |-> accepted])
  IN IF body.threw THEN Returned([success |-> FALSE]) ELSE body

\* HighScoreManager.submitScore: true only for a response with success
submitScore(answer, accepted) ==
  LET body == LET response == submitHighScore(answer, accepted)
              IN IF response.threw THEN Thrown
                 ELSE Returned(response.value.success)
  IN IF body.threw THEN Returned(FALSE) ELSE body

\* HighScoreManager.loadScores: the list fetched replaces the scores; an
\* error thrown by the fetch is caught and the scores are kept
loadScores(scores, answer, list) ==
  LET body == LET fetched == fetchHighScores(answer, list)
              IN IF fetched.threw THEN Thrown ELSE Returned(fetched.value)
  IN IF body.threw THEN Returned(scores) ELSE body

\* ------------------------------------------------------------- entities
Null == <<>>

\* Bullet (a TimedEntity): constructor and TimedEntity.update
NewBullet == [lifetime |-> bullet_lifetime, isActive |-> TRUE]

\* TimedEntity.update that lets an entity live through lifetime 0
TimedUpdate_BelowZero(e, dt) ==
  IF e.lifetime - dt < 0
  THEN [e EXCEPT !.lifetime = @ - dt, !.isActive = FALSE]
  ELSE [e EXCEPT !.lifetime = @ - dt]

TimedUpdate(e, dt) ==
  IF e.lifetime - dt <= 0
  THEN [e EXCEPT !.lifetime = @ - dt, !.isActive = FALSE]
  ELSE [e EXCEPT !.lifetime = @ - dt]

UpdateAll(es, dt) == [k \in 1..Len(es) |-> TimedUpdate(es[k], dt)]
ActiveOnly(es) == SelectSeq(es, LAMBDA e : e.isActive)

\* Debris: every line starts with the same lifetime, so the Debris object is
\* active exactly while that lifetime is positive
\* origin is the position handed to the constructor, from which the lines
\* start
NewDebris(origin) ==
  [lifetime |-> visual_debrisLifetime, isActive |-> TRUE, origin |-> origin]
DebrisUpdate(d, dt) ==
  [d EXCEPT !.lifetime = IF @ <= 0 THEN @ ELSE @ - dt,
            !.isActive = (d.lifetime > 0 /\ d.lifetime - dt > 0)]

\* Asteroid: size and points; split() gives the two children of the next size
asteroidPoints(size) ==
  CASE size = "large" -> asteroid_large_points
    [] size = "medium" -> asteroid_medium_points
    [] OTHER -> asteroid_small_points

NewAsteroid(size) == [size |-> size, isActive |-> TRUE, points |-> asteroidPoints(size)]

split(a) ==
  IF a.size = "small" THEN <<>>
  ELSE LET nextSize == IF a.size = "large" THEN "medium" ELSE "small"
       IN <<NewAsteroid(nextSize), NewAsteroid(nextSize)>>

\* Asteroid in full: SIZE_CONFIG speeds, and directions (cos a, sin a) as
\* exact unit vectors over the denominator UnitDen
asteroid_large_speed == 100
asteroid_medium_speed == 160
asteroid_small_speed == 240
UnitDen == 5
UnitVectors ==
  { d \in (-UnitDen..UnitDen) \X (-UnitDen..UnitDen) :
      d[1] * d[1] + d[2] * d[2] = UnitDen * UnitDen }

asteroidSpeed(size) ==
  CASE size = "large" -> asteroid_large_speed
    [] size = "medium" -> asteroid_medium_speed
    [] OTHER -> asteroid_small_speed

\* the constructor called with a direction
Asteroid(p, size, direction) ==
  [ position |-> p, size |-> size, isActive |-> TRUE,
    points |-> asteroidPoints(size),
    velocity |-> << (direction[1] * asteroidSpeed(size)) \div UnitDen,
                    (direction[2] * asteroidSpeed(size)) \div UnitDen >> ]

\* angle2 = angle1 + PI/2 + randomRange(-0.5, 0.5): the second direction is
\* counter-clockwise of the first and |cos| of the angle between them is at
\* most sin(0.5) = 0.479..., so their dot product over UnitDen^2 is at most
\* split_spreadDot
split_spreadDot == 11
SplitDirections ==
  { d \in UnitVectors \X UnitVectors :
      /\ d[1][1] * d[2][2] - d[1][2] * d[2][1] > 0
      /\ d[1][1] * d[2][1] + d[1][2] * d[2][2] <= split_spreadDot
      /\ d[1][1] * d[2][1] + d[1][2] * d[2][2] >= -split_spreadDot }

\* Asteroid.split whose pieces keep the speed of the parent's size
splitInto_ParentSpeed(a, d1, d2) ==
  IF a.size = "small" THEN <<>>
  ELSE LET nextSize == IF a.size = "large" THEN "medium" ELSE "small"
           piece(d) == [Asteroid(a.position, nextSize, d)
                          EXCEPT !.velocity = Asteroid(a.position, a.size, d).velocity]
       IN <<piece(d1), piece(d2)>>

\* Asteroid.split with the two directions it draws
splitInto(a, d1, d2) ==
  IF a.size = "small" THEN <<>>
  ELSE LET nextSize == IF a.size = "large" THEN "medium" ELSE "small"
       IN <<Asteroid(a.position, nextSize, d1), Asteroid(a.position, nextSize, d2)>>

createAsteroids(count) == [k \in 1..count |-> NewAsteroid("large")]

\* UFO constructor; tenths is the cooldown multiplier max(0.3, 1 - 0.1(level-1))
NewUFO(size, level, onLeft, longDelay) ==
  LET tenths == Max(3, 10 - (level - 1))
      base == IF size = "large" THEN ufo_large_shootCooldown ELSE ufo_small_shootCooldown
      cd == (base * tenths) \div 10
      r == IF size = "large" THEN ufo_large_radius ELSE ufo_small_radius
  IN [ size |-> size, radius |-> r,
       baseSpeed |-> IF size = "large" THEN ufo_large_speed ELSE ufo_small_speed,
       points |-> IF size = "large" THEN ufo_large_points ELSE ufo_small_points,
       shootCooldown |-> cd,
       shootTimer |-> IF longDelay THEN cd ELSE ufo_shootDelayMin,
       horizontalDirection |-> IF onLeft THEN 1 ELSE -1,
       x |-> IF onLeft THEN -r ELSE screen_width + r ]

\* createUFO passes no level to the constructor, whose default is 1
createUFO(level, o) == NewUFO(o.ufoSize, 1, o.ufoOnLeft, o.ufoLongDelay)

\* UFO.update followed by a horizontal wrap like that of wrapEntity
UFOUpdate_WrapsAcross(u, dt) ==
  LET x == u.x + u.baseSpeed * u.horizontalDirection * dt
  IN [u EXCEPT !.shootTimer = IF @ > 0 THEN @ - dt ELSE @,
               !.x = IF x > screen_width + u.radius THEN -u.radius
                     ELSE IF x < -u.radius THEN screen_width + u.radius
                     ELSE x]

UFOUpdate(u, dt) ==
  [u EXCEPT !.shootTimer = IF @ > 0 THEN @ - dt ELSE @,
            !.x = @ + u.baseSpeed * u.horizontalDirection * dt]

\* tryShoot that fires without touching the timer
tryShoot_NoReset(u) ==
  IF u.shootTimer > 0 THEN [ufo |-> u, shot |-> FALSE]
  ELSE [ufo |-> u, shot |-> TRUE]

\* UFO.tryShoot: the UFO after the call, and whether an angle (rather than
\* null) was returned
tryShoot(u) ==
  IF u.shootTimer > 0 THEN [ufo |-> u, shot |-> FALSE]
  ELSE [ufo |-> [u EXCEPT !.shootTimer = u.shootCooldown], shot |-> TRUE]

isOffScreen(u) ==
  IF u.horizontalDirection > 0
  THEN u.x > screen_width + 2 * u.radius
  ELSE u.x < -(2 * u.radius)

\* GravityWell (a TimedEntity)
gravityWell_pullRadius == 12000
gravityWell_deadZone == 40
gravityWell_pullStrength_min == 15
gravityWell_pullStrength_max == 50
gravityWell_strengthPerLevel == 4

getGravityWellPullStrength(level) ==
  Min(gravityWell_pullStrength_max,
      gravityWell_pullStrength_min + (level - 1) * gravityWell_strengthPerLevel)

createGravityWell(level, o) ==
  [ position |-> o.gwPosition, lifetime |-> o.gwDuration, isActive |-> TRUE,
    pullStrength |-> getGravityWellPullStrength(level) ]

\* Math.sqrt rounded down: the largest r in lo..hi with r * r <= n
RECURSIVE SqrtBetween(_, _, _)
SqrtBetween(n, lo, hi) ==
  IF lo >= hi THEN lo
  ELSE LET mid == (lo + hi + 1) \div 2
       IN IF mid * mid <= n THEN SqrtBetween(n, mid, hi)
          ELSE SqrtBetween(n, lo, mid - 1)

\* exact for axis-aligned offsets, rounded down for the others
Dist(dx, dy) ==
  LET ax == IF dx < 0 THEN -dx ELSE dx
      ay == IF dy < 0 THEN -dy ELSE dy
  IN IF dx = 0 THEN ay
     ELSE IF dy = 0 THEN ax
     ELSE SqrtBetween(dx * dx + dy * dy, Max(ax, ay), ax + ay)

\* getPullForce that lets go at exactly pullRadius
getPullForce_OpenRadius(w, p) ==
  LET dx == w.position[1] - p[1]
      dy == w.position[2] - p[2]
      d2 == dx * dx + dy * dy
  IN IF d2 >= gravityWell_pullRadius * gravityWell_pullRadius
        \/ d2 < gravityWell_deadZone * gravityWell_deadZone
     THEN <<0, 0>>
     ELSE LET d == Dist(dx, dy)
              q(a) == IF a < 0 THEN -((-a * w.pullStrength) \div d)
                      ELSE (a * w.pullStrength) \div d
          IN <<q(dx), q(dy)>>

getPullForce(w, p) ==
  LET dx == w.position[1] - p[1]
      dy == w.position[2] - p[2]
      d2 == dx * dx + dy * dy
  IN IF d2 > gravityWell_pullRadius * gravityWell_pullRadius
        \/ d2 < gravityWell_deadZone * gravityWell_deadZone
     THEN <<0, 0>>
     ELSE LET d == Dist(dx, dy)
              q(a) == IF a < 0 THEN -((-a * w.pullStrength) \div d)
                      ELSE (a * w.pullStrength) \div d
          IN <<q(dx), q(dy)>>

\* distance(a, b) of physics/math, rounded down: against a whole number of
\* units r, Dist < r exactly when the true distance is below r
distance(a, b) == Dist(b[1] - a[1], b[2] - a[2])

bullet_radius == 80
asteroid_small_radius == 400

\* the comparison of checkCollision that counts touching circles
Overlap_Touching(a, b) == distance(a.position, b.position) <= a.radius + b.radius

\* the comparison of checkCollision on two entities with a position and a
\* radius: what the games' frames take from their oracle
Overlap(a, b) == distance(a.position, b.position) < a.radius + b.radius

\* ----------------------------------------------------------------- Game
(* A world w is the Game object with what it owns:                         *)
(*   w.g  the Game fields (data.* flattened, ship, entity lists, timers)   *)
(*   w.i  the InputHandler, w.t the TextInputHandler                       *)
(*   w.h  the HighScoreManager: scores (cached list), loaded (cacheTime#0) *)
(*   w.a  promises in flight: submit (submitScore awaited by               *)
(*        submitPlayerScore), load (loadScores awaited by                  *)
(*        submitPlayerScore), fetch (loadScores nobody awaits)             *)
Undefined == -1

NewGame ==
  [ score |-> 0, lives |-> 3, level |-> 1, state |-> "start",
    finalScore |-> Undefined, finalLevel |-> Undefined,
    ship |-> NewShip, asteroids |-> <<>>, bullets |-> <<>>,
    ufoBullets |-> <<>>, debris |-> <<>>,
    ufo |-> Null, ufoSpawnTimer |-> 0,
    gravityWell |-> Null, gravityWellSpawnTimer |-> 0,
    menuTimer |-> 0, fireCooldown |-> 0, respawnTimer |-> 0,
    gameOverTimer |-> 0 ]

resetGame(w) ==
  [w EXCEPT !.i = clearAll(w.i),
            !.g = [w.g EXCEPT !.score = initialState_score,
                              !.lives = initialState_lives,
                              !.level = initialState_level,
                              !.state = "start",
                              !.finalScore = Undefined,
                              !.finalLevel = Undefined,
                              !.asteroids = <<>>, !.bullets = <<>>,
                              !.ufoBullets = <<>>, !.debris = <<>>,
                              !.ship = reset(w.g.ship, Centre),
                              !.respawnTimer = 0,
                              !.ufo = Null, !.ufoSpawnTimer = 0,
                              !.gravityWell = Null,
                              !.gravityWellSpawnTimer = 0,
                              !.menuTimer = 0]]

spawnAsteroids(g, count) == [g EXCEPT !.asteroids = @ \o createAsteroids(count)]

startGame(w, o) ==
  [w EXCEPT !.i = clearAll(w.i),
            !.g = [spawnAsteroids(w.g, asteroid_startingCount)
                     EXCEPT !.state = "playing",
                            !.ufoSpawnTimer = o.ufoDelay,
                            !.gravityWellSpawnTimer = o.gwDelay]]

\* refreshIfNeeded starts a loadScores when the cache is older than
\* cacheTimeout; a cache that was never filled (cacheTime = 0) always is
transitionToViewingScores(w, o) ==
  [w EXCEPT !.g.state = "viewingScores", !.g.menuTimer = 0,
            !.a.fetch = IF ~w.h.loaded \/ o.cacheExpired THEN @ + 1 ELSE @]

\* the synchronous part of submitPlayerScore: the request is issued
submitPlayerScore(w) == [w EXCEPT !.a.submit = @ + 1]

\* lastLifeLost that forgets the UFO and the gravity well
lastLifeLost_KeepsSlots(w) ==
  LET g == [w.g EXCEPT !.finalScore = w.g.score, !.finalLevel = w.g.level]
  IN IF isHighScore(w.h.scores, g.score)
     THEN [w EXCEPT !.g = [g EXCEPT !.state = "submitScore"],
                    !.t = activate(w.t)]
     ELSE [w EXCEPT !.g = [g EXCEPT !.state = "gameOver",
                                    !.gameOverTimer = timing_gameOverReturnDelay]]

\* shipDestroyed, the branch taken when no life is left
lastLifeLost(w) ==
  LET g == [w.g EXCEPT !.finalScore = w.g.score, !.finalLevel = w.g.level]
      w1 == IF isHighScore(w.h.scores, g.score)
            THEN [w EXCEPT !.g = [g EXCEPT !.state = "submitScore"],
                           !.t = activate(w.t)]
            ELSE [w EXCEPT !.g = [g EXCEPT !.state = "gameOver",
                                           !.gameOverTimer = timing_gameOverReturnDelay]]
  IN [w1 EXCEPT !.g.ufo = Null, !.g.gravityWell = Null]

\* shipDestroyed that ends the game one destruction late
shipDestroyed_OneMore(w) ==
  LET g1 == [w.g EXCEPT !.debris = Append(@, NewDebris(w.g.ship.position)),
                        !.ship.isActive = FALSE,
                        !.lives = @ - 1]
      w1 == [w EXCEPT !.g = g1, !.i = clearAll(w.i)]
  IN IF g1.lives < 0
     THEN lastLifeLost(w1)
     ELSE [w1 EXCEPT !.g.respawnTimer = timing_respawnDelay]

shipDestroyed(w) ==
  LET g1 == [w.g EXCEPT !.debris = Append(@, NewDebris(w.g.ship.position)),
                        !.ship.isActive = FALSE,
                        !.lives = @ - 1]
      w1 == [w EXCEPT !.g = g1, !.i = clearAll(w.i)]
  IN IF g1.lives <= 0
     THEN lastLifeLost(w1)
     ELSE [w1 EXCEPT !.g.respawnTimer = timing_respawnDelay]

\* nextLevel with the wave counted before the level is raised
nextLevel_CountsFirst(g) ==
  LET g1 == [g EXCEPT !.level = @ + 1]
  IN spawnAsteroids(g1, asteroid_startingCount + g.level - 1)

nextLevel(g) ==
  LET g1 == [g EXCEPT !.level = @ + 1]
  IN spawnAsteroids(g1, asteroid_startingCount + g1.level - 1)

\* fire that leaves the cooldown as it is
fire_NoCooldown(g) == [g EXCEPT !.bullets = Append(@, NewBullet)]

fire(g) == [g EXCEPT !.bullets = Append(@, NewBullet),
                     !.fireCooldown = bullet_fireCooldown]

\* the respawn countdown with the ship reset only once the timer is below 0
handleRespawn_BelowZero(g, dt) ==
  IF g.respawnTimer > 0
  THEN IF g.respawnTimer - dt < 0
       THEN [g EXCEPT !.respawnTimer = @ - dt, !.ship = reset(g.ship, Centre)]
       ELSE [g EXCEPT !.respawnTimer = @ - dt]
  ELSE g

\* the respawn countdown of Game.update
handleRespawn(g, dt) ==
  IF g.respawnTimer > 0
  THEN IF g.respawnTimer - dt <= 0
       THEN [g EXCEPT !.respawnTimer = @ - dt, !.ship = reset(g.ship, Centre)]
       ELSE [g EXCEPT !.respawnTimer = @ - dt]
  ELSE g

updateCooldowns(g, dt) ==
  IF g.fireCooldown > 0 THEN [g EXCEPT !.fireCooldown = @ - dt] ELSE g

\* "Handle input (block during respawn while debris is clearing)"
handleInput(w, dt, o) ==
  IF w.g.respawnTimer > 0 THEN w
  ELSE LET g0 == [w.g EXCEPT !.ship.isThrusting = FALSE]
       IN IF ~g0.ship.isActive THEN [w EXCEPT !.g = g0]
          ELSE LET g1 == IF w.i.keys.thrust
                         THEN [g0 EXCEPT !.ship = thrust(g0.ship, dt)] ELSE g0
                   g2 == IF w.i.firePressed /\ g1.fireCooldown <= 0
                         THEN fire(g1) ELSE g1
                   g3 == IF w.i.hyperspacePressed
                         THEN [g2 EXCEPT !.ship = activateHyperspace(g2.ship, o.target)]
                         ELSE g2
               IN [w EXCEPT !.g = g3, !.i.firePressed = FALSE,
                            !.i.hyperspacePressed = FALSE]

updateShip(g, dt) ==
  LET s == ShipUpdate(g.ship, dt)
  IN [g EXCEPT !.ship = [s EXCEPT !.position = wrapEntity(s.position, ship_radius)]]

updateBullets(g, dt) ==
  [g EXCEPT !.bullets = UpdateAll(g.bullets, dt),
            !.ufoBullets = UpdateAll(g.ufoBullets, dt)]

spawnUFO(g, o) == [g EXCEPT !.ufo = <<createUFO(g.level, o)>>]

\* updateUFO that lets the UFO shoot whatever the ship's condition
updateUFO_ShootsRegardless(g, dt, o) ==
  IF g.ufo = Null
  THEN LET g1 == [g EXCEPT !.ufoSpawnTimer = @ - dt]
       IN IF g1.ufoSpawnTimer <= 0 THEN spawnUFO(g1, o) ELSE g1
  ELSE LET u1 == UFOUpdate(g.ufo[1], dt)
           shoots == tryShoot(u1).shot
           u2 == tryShoot(u1).ufo
           g1 == IF shoots THEN [g EXCEPT !.ufoBullets = Append(@, NewBullet)] ELSE g
       IN IF isOffScreen(u2)
          THEN [g1 EXCEPT !.ufo = Null, !.ufoSpawnTimer = o.ufoDelay]
          ELSE [g1 EXCEPT !.ufo = <<u2>>]

\* updateUFO that leaves the spawn timer alone when the UFO has left
updateUFO_NoRearm(g, dt, o) ==
  IF g.ufo = Null
  THEN LET g1 == [g EXCEPT !.ufoSpawnTimer = @ - dt]
       IN IF g1.ufoSpawnTimer <= 0 THEN spawnUFO(g1, o) ELSE g1
  ELSE LET u1 == UFOUpdate(g.ufo[1], dt)
           aims == g.ship.isActive /\ ~isInHyperspace(g.ship)
           shoots == aims /\ tryShoot(u1).shot
           u2 == IF aims THEN tryShoot(u1).ufo ELSE u1
           g1 == IF shoots THEN [g EXCEPT !.ufoBullets = Append(@, NewBullet)] ELSE g
       IN IF isOffScreen(u2)
          THEN [g1 EXCEPT !.ufo = Null]
          ELSE [g1 EXCEPT !.ufo = <<u2>>]

updateUFO(g, dt, o) ==
  IF g.ufo = Null
  THEN LET g1 == [g EXCEPT !.ufoSpawnTimer = @ - dt]
       IN IF g1.ufoSpawnTimer <= 0 THEN spawnUFO(g1, o) ELSE g1
  ELSE LET u1 == UFOUpdate(g.ufo[1], dt)
           aims == g.ship.isActive /\ ~isInHyperspace(g.ship)
           shoots == aims /\ tryShoot(u1).shot
           u2 == IF aims THEN tryShoot(u1).ufo ELSE u1
           g1 == IF shoots THEN [g EXCEPT !.ufoBullets = Append(@, NewBullet)] ELSE g
       IN IF isOffScreen(u2)
          THEN [g1 EXCEPT !.ufo = Null, !.ufoSpawnTimer = o.ufoDelay]
          ELSE [g1 EXCEPT !.ufo = <<u2>>]

spawnGravityWell(g, o) == [g EXCEPT !.gravityWell = <<createGravityWell(g.level, o)>>]

updateGravityWell(g, dt, o) ==
  IF g.gravityWell = Null
  THEN IF debug_alwaysShowGravityWell THEN spawnGravityWell(g, o)
       ELSE LET g1 == [g EXCEPT !.gravityWellSpawnTimer = @ - dt]
            IN IF g1.gravityWellSpawnTimer <= 0 THEN spawnGravityWell(g1, o) ELSE g1
  ELSE LET w1 == TimedUpdate(g.gravityWell[1], dt)
           pull == getPullForce(w1, g.ship.position)
           g1 == IF g.ship.isActive /\ ~isInHyperspace(g.ship)
                 THEN [g EXCEPT !.ship.velocity = add(@, scale(pull, dt))] ELSE g
       IN IF ~w1.isActive
          THEN IF debug_alwaysShowGravityWell
               THEN spawnGravityWell([g1 EXCEPT !.gravityWell = Null], o)
               ELSE [g1 EXCEPT !.gravityWell = Null,
                               !.gravityWellSpawnTimer = o.gwDelay]
          ELSE [g1 EXCEPT !.gravityWell = <<w1>>]

updateDebris(g, dt) ==
  [g EXCEPT !.debris = ActiveOnly([k \in 1..Len(g.debris) |-> DebrisUpdate(g.debris[k], dt)])]

removeInactiveBullets(g) ==
  [g EXCEPT !.bullets = ActiveOnly(g.bullets), !.ufoBullets = ActiveOnly(g.ufoBullets)]

\* checkCollision(a, b): both active and the circles overlap; the overlap of
\* the two circles is the frame input `overlap`
checkCollision(aActive, bActive, overlap) == aActive /\ bActive /\ overlap

(* checkBulletCollisions.  o.bulletOnAsteroid[b] is the set of indices of   *)
(* the asteroids whose circle bullet b overlaps.  The outer loop visits the *)
(* bullets in order; the inner loop stops at the first asteroid that the    *)
(* bullet collides with (break).  r carries the lists, the score and the    *)
(* new asteroids, which join the list only after the pass.                  *)
LeastOf(S) == CHOOSE a \in S : \A c \in S : a <= c

\* the body of the inner loop's if, with the asteroid left active
strike_AsteroidStays(r, b, a) ==
  [r EXCEPT !.bullets[b].isActive = FALSE,
            !.score = @ + r.asteroids[a].points,
            !.newAsteroids = @ \o split(r.asteroids[a])]

\* the body of the inner loop's if: bullet b has hit asteroid a
strike(r, b, a) ==
  [r EXCEPT !.bullets[b].isActive = FALSE,
            !.asteroids[a].isActive = FALSE,
            !.score = @ + r.asteroids[a].points,
            !.newAsteroids = @ \o split(r.asteroids[a])]

RECURSIVE bulletLoop(_, _, _)
bulletLoop(r, b, hit) ==
  IF b > Len(r.bullets) THEN r
  ELSE LET overlapped == IF b \in DOMAIN hit THEN hit[b] ELSE {}
           struck == { a \in overlapped \cap (1..Len(r.asteroids)) :
                         checkCollision(r.bullets[b].isActive,
                                        r.asteroids[a].isActive, TRUE) }
       IN IF struck # {}
          THEN bulletLoop(strike(r, b, LeastOf(struck)), b + 1, hit)
          ELSE bulletLoop(r, b + 1, hit)

checkBulletCollisions(g, o) ==
  LET r == bulletLoop([bullets |-> g.bullets, asteroids |-> g.asteroids,
                       score |-> g.score, newAsteroids |-> <<>>],
                      1, o.bulletOnAsteroid)
  IN [g EXCEPT !.bullets = r.bullets, !.score = r.score,
               !.asteroids = ActiveOnly(r.asteroids) \o r.newAsteroids]

\* o.bulletOnUFO: index of the first player bullet overlapping the UFO (0: none)
checkUFOCollisions(g, o) ==
  IF g.ufo = Null THEN g
  ELSE LET b == o.bulletOnUFO
       IN IF b \in 1..Len(g.bullets)
             /\ checkCollision(g.bullets[b].isActive, TRUE, TRUE)
          THEN [g EXCEPT !.bullets[b].isActive = FALSE,
                         !.score = @ + g.ufo[1].points,
                         !.debris = Append(@, NewDebris(<<g.ufo[1].x>>)),
                         !.ufo = Null,
                         !.ufoSpawnTimer = o.ufoDelay]
          ELSE g

\* o.ufoBulletOnShip: the remaining lifetimes of the hostile bullets whose
\* circle overlaps the ship's (a bullet flies straight, so where it is
\* follows from its age); the loop takes the first such bullet
checkUFOBulletCollisions(w, o) ==
  LET s == w.g.ship
      hits == { k \in 1..Len(w.g.ufoBullets) :
                  checkCollision(w.g.ufoBullets[k].isActive, s.isActive,
                                 w.g.ufoBullets[k].lifetime \in o.ufoBulletOnShip) }
  IN IF ~s.isActive \/ isInvulnerable(s) \/ isInHyperspace(s) THEN w
     ELSE IF hits # {}
          THEN LET b == CHOOSE k \in hits : \A j \in hits : k <= j
               IN shipDestroyed([w EXCEPT !.g.ufoBullets[b].isActive = FALSE])
          ELSE w

\* o.asteroidOnShip / o.ufoOnShip: the ship's circle overlaps some asteroid's
\* / the UFO's
checkShipCollision(w, o) ==
  LET s == w.g.ship
  IN IF debug_disablePlayerCollision THEN w
     ELSE IF ~s.isActive \/ isInvulnerable(s) \/ isInHyperspace(s) THEN w
     ELSE IF Len(w.g.asteroids) > 0 /\ checkCollision(s.isActive, TRUE, o.asteroidOnShip)
          THEN shipDestroyed(w)
     ELSE IF w.g.ufo # Null /\ checkCollision(s.isActive, TRUE, o.ufoOnShip)
          THEN shipDestroyed(w)
     ELSE w

\* Game.update in state playing, after the menu check
simulate(w, dt, o) ==
  LET g1 == updateCooldowns(handleRespawn(w.g, dt), dt)
      w1 == handleInput([w EXCEPT !.g = g1], dt, o)
      g2 == updateShip(w1.g, dt)
      g3 == updateBullets(g2, dt)
      g4 == updateUFO(g3, dt, o)
      g5 == updateGravityWell(g4, dt, o)
      g6 == removeInactiveBullets(updateDebris(g5, dt))
      g7 == checkUFOCollisions(checkBulletCollisions(g6, o), o)
      w2 == checkUFOBulletCollisions([w1 EXCEPT !.g = g7], o)
      w3 == checkShipCollision(w2, o)
  IN IF Len(w3.g.asteroids) = 0 THEN [w3 EXCEPT !.g = nextLevel(w3.g)] ELSE w3

\* Game.update, state start: the menu alternates with the score table
updateStart(w, dt, o) ==
  LET w1 == [w EXCEPT !.g.menuTimer = @ + dt]
  IN IF w1.g.menuTimer >= MenuDisplayDuration
     THEN transitionToViewingScores(w1, o)
     ELSE IF w1.i.startPressed
          THEN startGame([w1 EXCEPT !.i.startPressed = FALSE], o)
          ELSE w1

\* updateViewingScores that returns to the menu with the timer still run up
updateViewingScores_KeepsTimer(w, dt, o) ==
  LET w1 == [w EXCEPT !.g.menuTimer = @ + dt]
  IN IF w1.g.menuTimer >= ScoresDisplayDuration
     THEN [w1 EXCEPT !.g.state = "start"]
     ELSE IF w1.i.startPressed
          THEN startGame([w1 EXCEPT !.i.startPressed = FALSE], o)
          ELSE w1

\* Game.update, state viewingScores
updateViewingScores(w, dt, o) ==
  LET w1 == [w EXCEPT !.g.menuTimer = @ + dt]
  IN IF w1.g.menuTimer >= ScoresDisplayDuration
     THEN [w1 EXCEPT !.g.state = "start", !.g.menuTimer = 0]
     ELSE IF w1.i.startPressed
          THEN startGame([w1 EXCEPT !.i.startPressed = FALSE], o)
          ELSE w1

\* Game.update, state submitScore: consumeSubmit runs first, consumeCancel
\* only when no valid name was submitted
updateSubmitScore(w) ==
  LET w1 == [w EXCEPT !.t.submitPressed = FALSE]
  IN IF w.t.submitPressed /\ isValid(w.t)
     THEN submitPlayerScore(w1)
     ELSE IF w1.t.cancelPressed
          THEN resetGame([w1 EXCEPT !.t = deactivate([w1.t EXCEPT !.cancelPressed = FALSE])])
          ELSE w1

\* updateGameOver whose countdown stands still
updateGameOver_Frozen(w, dt, o) ==
  IF w.g.gameOverTimer <= 0
  THEN resetGame(w)
  ELSE IF w.i.startPressed
       THEN startGame(resetGame([w EXCEPT !.i.startPressed = FALSE]), o)
       ELSE w

\* Game.update, state gameOver
updateGameOver(w, dt, o) ==
  LET w1 == [w EXCEPT !.g.gameOverTimer = @ - dt]
  IN IF w1.g.gameOverTimer <= 0
     THEN resetGame(w1)
     ELSE IF w1.i.startPressed
          THEN startGame(resetGame([w1 EXCEPT !.i.startPressed = FALSE]), o)
          ELSE w1

\* updatePlaying that simulates the frame before it returns to the menu
updatePlaying_SimulatesFirst(w, dt, o) ==
  IF w.i.menuPressed
  THEN resetGame(simulate([w EXCEPT !.i.menuPressed = FALSE], dt, o))
  ELSE simulate(w, dt, o)

\* Game.update, state playing: the menu check, then the simulation
updatePlaying(w, dt, o) ==
  IF w.i.menuPressed
  THEN resetGame([w EXCEPT !.i.menuPressed = FALSE])
  ELSE simulate(w, dt, o)

\* Game.update(dt)
update(w, dt, o) ==
  CASE w.g.state = "start" -> updateStart(w, dt, o)
    [] w.g.state = "viewingScores" -> updateViewingScores(w, dt, o)
    [] w.g.state = "submitScore" -> updateSubmitScore(w)
    [] w.g.state = "gameOver" -> updateGameOver(w, dt, o)
    [] OTHER -> updatePlaying(w, dt, o)

\* the two continuations of submitPlayerScore after its awaits
\* the continuation that stays in the score entry when the submission failed
submitResolved_FailureStays(w, success) ==
  LET w1 == [w EXCEPT !.a.submit = @ - 1, !.t = deactivate(w.t)]
  IN IF success THEN [w1 EXCEPT !.a.load = @ + 1] ELSE w1

submitResolved(w, success) ==
  LET w1 == [w EXCEPT !.a.submit = @ - 1, !.t = deactivate(w.t)]
  IN IF success THEN [w1 EXCEPT !.a.load = @ + 1] ELSE resetGame(w1)

loadResolved(w, list, o) ==
  transitionToViewingScores(
    [w EXCEPT !.a.load = @ - 1, !.h = [scores |-> list, loaded |-> TRUE]],
    [o EXCEPT !.cacheExpired = FALSE])

\* HighScoreManager.loadScores completing with nobody awaiting it
fetchResolved(w, list) ==
  [w EXCEPT !.a.fetch = @ - 1, !.h = [scores |-> list, loaded |-> TRUE]]

\* ------------------------------------------------------- state machine
\* game, input, textInput, hsm: the objects of Game; async: the requests in
\* flight; playClock: simulated ticks since the last resetGame; watch: what
\* an observer with a stopwatch notes about the ship's hyperspace jumps
VARIABLES game, input, textInput, hsm, async, playClock, watch

vars == <<game, input, textInput, hsm, async, playClock, watch>>

World == [g |-> game, i |-> input, t |-> textInput, h |-> hsm, a |-> async]

Becomes(w) ==
  /\ game' = w.g
  /\ input' = w.i
  /\ textInput' = w.t
  /\ hsm' = w.h
  /\ async' = w.a

\* after the constructor and Game.start(), whose loadScores is in flight
Init ==
  /\ game = NewGame
  /\ input = NewInput
  /\ textInput = NewTextInput
  /\ hsm = [scores |-> <<>>, loaded |-> FALSE]
  /\ async = [submit |-> 0, load |-> 0, fetch |-> 1]
  /\ playClock = 0
  /\ watch = [phaseClock |-> 0, cycleClock |-> 0, refused |-> FALSE,
              branch |-> "frame"]

\* what the service can answer to a fetch: nothing (or a failure), or a full
\* board whose lowest entry is FullBoardLowest
FullBoardLowest == 0
ServerLists == { <<>>, [k \in 1..highScores_displayCount |-> FullBoardLowest] }

\* the window's keydown event reaches both handlers; e.key for the codes used
KeyOf(code) ==
  CASE code = "Space" -> " "
    [] code = "KeyB" -> "B"
    [] code = "KeyH" -> "H"
    [] OTHER -> code

KeyDown(code) ==
  /\ input' = updateKey(input, code, TRUE)
  /\ textInput' = handleKeyDown(textInput, KeyOf(code))
  /\ UNCHANGED <<game, hsm, async, playClock, watch>>

KeyUp(code) ==
  /\ input' = updateKey(input, code, FALSE)
  /\ UNCHANGED <<game, textInput, hsm, async, playClock, watch>>

\* the frames' inputs that no specification below varies
NoInputs ==
  [ target |-> <<0, 0>>, ufoDelay |-> ufo_spawnDelay_min,
    gwDelay |-> gravityWell_spawnDelay_min,
    ufoSize |-> "large", ufoOnLeft |-> TRUE, ufoLongDelay |-> FALSE,
    gwPosition |-> <<28000, 20000>>, gwDuration |-> gravityWell_duration_max,
    bulletOnAsteroid |-> <<>>, bulletOnUFO |-> 0, ufoBulletOnShip |-> {},
    asteroidOnShip |-> FALSE, ufoOnShip |-> FALSE, cacheExpired |-> FALSE ]

\* update(World, dt, _) calls resetGame
Resets(dt) ==
  CASE game.state = "submitScore" ->
         ~(textInput.submitPressed /\ isValid(textInput)) /\ textInput.cancelPressed
    [] game.state = "gameOver" -> game.gameOverTimer - dt <= 0 \/ input.startPressed
    [] game.state = "playing" -> input.menuPressed
    [] OTHER -> FALSE

\* the branch of Game.update this frame takes, where it is one that ends or
\* abandons a game
Branch(dt) ==
  CASE game.state = "playing" /\ input.menuPressed -> "menu"
    [] game.state = "gameOver" /\ game.gameOverTimer - dt <= 0 -> "expiry"
    [] game.state = "gameOver" /\ input.startPressed -> "restart"
    [] OTHER -> "frame"

\* this frame's update hands a hyperspace press to Ship.activateHyperspace
Jumps(dt) ==
  LET g == handleRespawn(game, dt)
  IN g.respawnTimer <= 0 /\ g.ship.isActive /\ input.hyperspacePressed

(* The stopwatch over one simulated frame that takes the ship from phase    *)
(* `from` to phase `to`: phaseClock is the dt spent in the phase the ship   *)
(* is in, cycleClock the dt since the jump was accepted (kept for the frame *)
(* that returns to idle), refused whether a press was turned down.          *)
Stopwatch(dt, from, to) ==
  LET accepted == Jumps(dt) /\ from = "idle" /\ to # "idle"
  IN [ branch |-> "frame",
       phaseClock |-> IF to = "idle" THEN 0
                      ELSE IF accepted THEN dt
                      ELSE IF to # from THEN 0
                      ELSE watch.phaseClock + dt,
       cycleClock |-> IF accepted THEN dt
                      ELSE IF from # "idle" THEN watch.cycleClock + dt
                      ELSE 0,
       refused |-> Jumps(dt) /\ ~accepted ]

\* Game.loop: one animation frame.  playClock is the simulated time since
\* the last resetGame, and budget bounds it.
Frame(dt, o, budget) ==
  LET w == update(World, dt, o)
      simulated == game.state = "playing" /\ ~input.menuPressed
  IN /\ simulated => playClock + dt <= budget
     /\ w.a.fetch <= MaxFetch
     /\ Becomes(w)
     /\ playClock' = IF Resets(dt) THEN 0
                     ELSE IF simulated THEN playClock + dt ELSE playClock
     /\ watch' = IF simulated
                 THEN Stopwatch(dt, game.ship.hyperspaceState, w.g.ship.hyperspaceState)
                 ELSE [watch EXCEPT !.branch = Branch(dt)]

SubmitResolve(success) ==
  /\ async.submit > 0
  /\ Becomes(submitResolved(World, success))
  /\ playClock' = IF success THEN playClock ELSE 0
  /\ UNCHANGED watch

LoadResolve(list) ==
  /\ async.load > 0
  /\ Becomes(loadResolved(World, list, NoInputs))
  /\ UNCHANGED <<playClock, watch>>

FetchResolve(list) ==
  /\ async.fetch > 0
  /\ Becomes(fetchResolved(World, list))
  /\ UNCHANGED <<playClock, watch>>

\* ------------------------------------------------- Spec: the session
\* Frames arrive at the capped dt; the player starts, leaves and restarts
\* games, enters a name, and is shot at; they do not fire, thrust or jump.
\* the hostile bullets that have flown BulletFlight ticks when this frame
\* has updated them
InReach(dt) ==
  { l \in (bullet_lifetime - BulletFlight - dt + 1)..(bullet_lifetime - BulletFlight) :
      \/ \E k \in 1..Len(game.ufoBullets) : game.ufoBullets[k].lifetime - dt = l
      \/ l = bullet_lifetime }

\* the service answers every request at the latest StaleWindow ticks into
\* the play that follows it
Timely == game.state = "playing" /\ async.submit + async.load + async.fetch > 0
            => playClock < StaleWindow

SessionFrame ==
  /\ input.menuPressed \/ Timely
  /\ \E hit \in IF game.state = "playing" /\ InReach(timing_maxDeltaTime) # {}
                THEN {{}, InReach(timing_maxDeltaTime)} ELSE {{}} :
       Frame(timing_maxDeltaTime,
             [NoInputs EXCEPT !.gwDelay = gravityWell_spawnDelay_max,
                              !.ufoBulletOnShip = hit],
             MaxPlayClock)

\* in the score entry the player cancels before typing or after the whole
\* name, and presses Enter on the last two letters
SessionKeyDown ==
  \/ /\ \/ game.state \in {"start", "viewingScores"}
        \/ /\ game.state = "gameOver"
           /\ game.gameOverTimer > timing_gameOverReturnDelay - RestartWindow
     /\ KeyDown("Space")
  \/ /\ textInput.active => Len(textInput.text) \in {0, MaxNameLen}
     /\ KeyDown("Escape")
  \/ /\ async.submit + async.load < MaxPending
     /\ textInput.active
     /\ Len(textInput.text) >= MaxNameLen - 1
     /\ KeyDown("Enter")
  \/ /\ textInput.active
     /\ Len(textInput.text) < MaxNameLen
     /\ KeyDown("KeyB")

SessionKeyUp == ~input.spaceWasReleased /\ KeyUp("Space")

SessionSubmitResolve == \E success \in BOOLEAN : SubmitResolve(success)
SessionLoadResolve == \E list \in ServerLists : LoadResolve(list)
SessionFetchResolve == \E list \in ServerLists : FetchResolve(list)

Next ==
  \/ SessionFrame
  \/ SessionKeyDown
  \/ SessionKeyUp
  \/ SessionSubmitResolve
  \/ SessionLoadResolve
  \/ SessionFetchResolve

Spec == Init /\ [][Next]_vars

\* ------------------------------------------- SpecHyper: the jump itself
\* One game from its start: frames of every length up to the cap, the
\* player jumps and, while the jump lasts, thrusts.  No saucer comes within MaxHyperClock.
HyperTargets == { <<0, 0>>, <<screen_width, screen_height>> }

Speed(v) == Max(Max(v[1], -v[1]), Max(v[2], -v[2]))

\* the player begins the game as soon as the score table has been fetched
Ready == game.state = "start" /\ hsm.loaded /\ ~input.startPressed
Begun == game.state = "start" => input.startPressed

HyperFrameWith(dt, target) ==
  /\ Begun
  /\ input.keys.thrust => Speed(game.ship.velocity) < MaxThrustSpeed
  /\ Frame(dt, [NoInputs EXCEPT !.target = target], MaxHyperClock)

HyperFrame ==
  \E dt \in 1..timing_maxDeltaTime : \E target \in HyperTargets :
    HyperFrameWith(dt, target)

HyperKeyDown ==
  \/ Ready /\ KeyDown("Space")
  \/ game.state = "playing" /\ ~input.hyperspacePressed /\ KeyDown("KeyH")
  \/ /\ game.state = "playing"
     /\ ~input.keys.thrust
     /\ isInHyperspace(game.ship)
     /\ Speed(game.ship.velocity) < MaxThrustSpeed
     /\ KeyDown("ArrowUp")

HyperKeyUp == input.keys.thrust /\ KeyUp("ArrowUp")

HyperFetchResolve == FetchResolve(<<>>)

NextHyper ==
  \/ HyperFrame
  \/ HyperKeyDown
  \/ HyperKeyUp
  \/ HyperFetchResolve

SpecHyper == Init /\ [][NextHyper]_vars

\* ------------------------------------------ FairOver: the end of a game
\* The score table is full, so no score of this player qualifies: the
\* player is shot until the game is over, then waits or restarts at once.
\* Frames keep arriving: requestAnimationFrame re-arms itself in Game.loop.
OverFrame ==
  /\ Begun
  /\ \E hit \in {{}, InReach(timing_maxDeltaTime)} :
       Frame(timing_maxDeltaTime,
             [NoInputs EXCEPT !.gwDelay = gravityWell_spawnDelay_max,
                              !.ufoBulletOnShip = hit],
             MaxPlayClock)

OverKeyDown ==
  /\ \/ Ready
     \/ /\ game.state = "gameOver"
        /\ game.gameOverTimer > timing_gameOverReturnDelay - RestartWindow
  /\ KeyDown("Space")

OverKeyUp == ~input.spaceWasReleased /\ KeyUp("Space")

OverFetchResolve == FetchResolve([k \in 1..highScores_displayCount |-> FullBoardLowest])

NextOver ==
  \/ OverFrame
  \/ OverKeyDown
  \/ OverKeyUp
  \/ OverFetchResolve

\* the fairness the countdown needs: a frame arrives while the game is over
GameOverFrame == game.state = "gameOver" /\ OverFrame

FairOver == Init /\ [][NextOver]_vars /\ WF_vars(GameOverFrame)

\* --------------------------------- FairSession: the service always answers
\* The session of Spec, where every request in flight is resolved: fetch
\* aborts its request after API_TIMEOUT and both api functions turn every
\* failure into a result.
FairSession ==
  /\ Init
  /\ [][Next]_vars
  /\ WF_vars(SessionSubmitResolve)
  /\ WF_vars(SessionLoadResolve)

\* ------------------------------------ SpecService: the service's answers
\* The session of Spec with every request resolved through the api
\* functions, for each thing the service can do with it.
ServiceSubmitResolveWith(answer, accepted) ==
  /\ ~submitScore(answer, accepted).threw
  /\ SubmitResolve(submitScore(answer, accepted).value)

ServiceLoadResolveWith(answer, list) ==
  /\ ~loadScores(hsm.scores, answer, list).threw
  /\ LoadResolve(loadScores(hsm.scores, answer, list).value)

ServiceFetchResolveWith(answer, list) ==
  /\ ~loadScores(hsm.scores, answer, list).threw
  /\ FetchResolve(loadScores(hsm.scores, answer, list).value)

ServiceSubmitResolve ==
  \E answer \in Answers : \E accepted \in BOOLEAN :
    ServiceSubmitResolveWith(answer, accepted)
ServiceLoadResolve ==
  \E answer \in Answers : \E list \in ServerLists : ServiceLoadResolveWith(answer, list)
ServiceFetchResolve ==
  \E answer \in Answers : \E list \in ServerLists : ServiceFetchResolveWith(answer, list)

NextService ==
  \/ SessionFrame
  \/ SessionKeyDown
  \/ SessionKeyUp
  \/ ServiceSubmitResolve
  \/ ServiceLoadResolve
  \/ ServiceFetchResolve

SpecService == Init /\ [][NextService]_vars

\* --------------------------------- SpecEntities: the entities' functions
\* No game runs: each step is one call of a function of an entity, on
\* inputs drawn from the sets below, and watch holds the call and its
\* result.
AsteroidSizes == {"large", "medium", "small"}
EntityPositions == { <<0, 0>>, Centre, <<screen_width, screen_height>> }

InitEntities ==
  /\ game = NewGame
  /\ input = NewInput
  /\ textInput = NewTextInput
  /\ hsm = [scores |-> <<>>, loaded |-> FALSE]
  /\ async = [submit |-> 0, load |-> 0, fetch |-> 1]
  /\ playClock = 0
  /\ watch = [call |-> "none"]

\* one call is made, from the state in which none has been
Called(record) ==
  /\ watch.call = "none"
  /\ watch' = record
  /\ UNCHANGED <<game, input, textInput, hsm, async, playClock>>

SplitCall ==
  \E size \in AsteroidSizes : \E p \in EntityPositions : \E d \in SplitDirections :
    LET a == Asteroid(p, size, d[1])
    IN Called([call |-> "split", self |-> a, result |-> splitInto(a, d[1], d[2])])

\* two circles around a point: apart, touching or overlapping by one unit,
\* along an axis and along the 3-4-5 diagonal
EntityRadii == {bullet_radius, asteroid_small_radius, ship_radius}
Gaps == {-1, 0, 1}
Placements(reach) ==
  { <<reach + gap, 0>> : gap \in Gaps } \cup { <<0, -(reach + gap)>> : gap \in Gaps }
  \cup { <<(3 * reach) \div 5 + gap, (4 * reach) \div 5>> : gap \in Gaps }
  \cup { <<0, 0>> }

CollideCall ==
  \E ra \in EntityRadii : \E rb \in EntityRadii : \E p \in EntityPositions :
  \E off \in Placements(ra + rb) : \E aActive \in BOOLEAN : \E bActive \in BOOLEAN :
    LET a == [position |-> p, radius |-> ra, isActive |-> aActive]
        b == [position |-> add(p, off), radius |-> rb, isActive |-> bActive]
    IN Called([call |-> "checkCollision", a |-> a, b |-> b,
               result |-> checkCollision(a.isActive, b.isActive, Overlap(a, b)),
               swapped |-> checkCollision(b.isActive, a.isActive, Overlap(b, a))])

\* a well at each strength that is a whole multiple of UnitDen (levels 1, 6
\* and 10), and points at the centre, around the dead zone, around the pull
\* radius and in between, along an axis and along the 3-4-5 diagonal
PullLevels == {1, 6, 10}
PullDistances ==
  { 0, gravityWell_deadZone - UnitDen, gravityWell_deadZone, 10 * gravityWell_deadZone,
    gravityWell_pullRadius, gravityWell_pullRadius + UnitDen }
PullOffsets ==
  { <<d, 0>> : d \in PullDistances } \cup { <<0, -d>> : d \in PullDistances }
  \cup { <<-((3 * d) \div UnitDen), (4 * d) \div UnitDen>> : d \in PullDistances }
  \cup { <<gravityWell_deadZone - 1, 0>>, <<0, gravityWell_pullRadius + 1>> }

PullCall ==
  \E level \in PullLevels : \E c \in EntityPositions : \E off \in PullOffsets :
    LET well == createGravityWell(level, [NoInputs EXCEPT !.gwPosition = c])
        p == add(c, off)
    IN Called([call |-> "getPullForce", well |-> well, targetPos |-> p,
               result |-> getPullForce(well, p)])

\* a saucer of either size built for a level, with its shoot timer run out,
\* overrun by one tick, about to run out, or full
UfoSizes == {"large", "small"}
UfoLevels == {1, 5, 12}
ShootTimers(u) == {-1, 0, 1, u.shootCooldown}

ShootCall ==
  \E size \in UfoSizes : \E level \in UfoLevels : \E onLeft \in BOOLEAN :
  \E timer \in ShootTimers(NewUFO(size, level, onLeft, FALSE)) :
    LET u == [NewUFO(size, level, onLeft, FALSE) EXCEPT !.shootTimer = timer]
    IN Called([call |-> "tryShoot", self |-> u, level |-> level,
               first |-> tryShoot(u), second |-> tryShoot(tryShoot(u).ufo)])

NextEntities ==
  \/ SplitCall
  \/ CollideCall
  \/ PullCall
  \/ ShootCall

SpecEntities == InitEntities /\ [][NextEntities]_vars

\* ------------------------------------- SpecEvade: jumping under fire
\* One game up to the first saucer's shots: frames at the capped dt, the
\* player jumps when a hostile bullet is in flight, touches rocks and
\* saucer, is shot, respawns and is shot at again.
EvadeFrameWith(hit, touch) ==
  /\ Begun
  /\ Frame(timing_maxDeltaTime,
           [NoInputs EXCEPT !.ufoBulletOnShip = hit,
                            !.asteroidOnShip = touch,
                            !.ufoOnShip = touch],
           MaxEvadeClock)

EvadeFrame ==
  \E hit \in {{}, InReach(timing_maxDeltaTime)} : \E touch \in BOOLEAN :
    EvadeFrameWith(hit, touch)

EvadeKeyDown ==
  \/ Ready /\ KeyDown("Space")
  \/ /\ game.state = "playing"
     /\ Len(game.ufoBullets) > 0
     /\ ~input.hyperspacePressed
     /\ KeyDown("KeyH")

EvadeFetchResolve == FetchResolve(<<>>)

NextEvade ==
  \/ EvadeFrame
  \/ EvadeKeyDown
  \/ EvadeFetchResolve

SpecEvade == Init /\ [][NextEvade]_vars

\* --------------------------------------- SpecShoot: clearing the waves
\* One game from its start: frames at the capped dt, the player holds the
\* fire key (the key repeats before every frame), and every bullet that
\* has flown ShotFlight ticks overlaps the first rocks of the list, the
\* first two of them, or none.  No saucer comes within MaxShootClock.
ShootTargets == { {}, {1}, {1, 2} }

\* bulletOnAsteroid for this frame: the bullets as removeInactiveBullets
\* leaves them (a bullet fired in this frame comes last and is out of reach)
Shots(dt, overlapped) ==
  LET bs == ActiveOnly(UpdateAll(game.bullets, dt))
  IN [ b \in 1..Len(bs) |->
         IF bs[b].lifetime <= bullet_lifetime - ShotFlight THEN overlapped ELSE {} ]

ShootFrameWith(overlapped) ==
  /\ Begun
  /\ game.state = "playing" => input.firePressed
  /\ Frame(timing_maxDeltaTime,
           [NoInputs EXCEPT !.bulletOnAsteroid = Shots(timing_maxDeltaTime, overlapped)],
           MaxShootClock)

ShootFrame == \E overlapped \in ShootTargets : ShootFrameWith(overlapped)

ShootKeyDown ==
  \/ Ready /\ KeyDown("Space")
  \/ game.state = "playing" /\ ~input.firePressed /\ KeyDown("Space")

ShootFetchResolve == FetchResolve(<<>>)

NextShoot ==
  \/ ShootFrame
  \/ ShootKeyDown
  \/ ShootFetchResolve

SpecShoot == Init /\ [][NextShoot]_vars

\* ------------------------------------- SpecEntry: Enter pressed again
\* The session with a player who starts games from the menu and the score
\* table, is shot at, types a name and presses Enter on its last two
\* letters, again while a request is in flight; they never press Escape.
EntryFrame == SessionFrame

EntryKeyDown ==
  \/ /\ game.state \in {"start", "viewingScores"}
     /\ KeyDown("Space")
  \/ /\ async.submit + async.load < MaxSubmits
     /\ textInput.active
     /\ Len(textInput.text) >= MaxNameLen - 1
     /\ KeyDown("Enter")
  \/ /\ textInput.active
     /\ Len(textInput.text) < MaxNameLen
     /\ KeyDown("KeyB")

EntryKeyUp == ~input.spaceWasReleased /\ KeyUp("Space")

EntrySubmitResolve == \E success \in BOOLEAN : SubmitResolve(success)
EntryLoadResolve == \E list \in ServerLists : LoadResolve(list)
EntryFetchResolve == \E list \in ServerLists : FetchResolve(list)

NextEntry ==
  \/ EntryFrame
  \/ EntryKeyDown
  \/ EntryKeyUp
  \/ EntrySubmitResolve
  \/ EntryLoadResolve
  \/ EntryFetchResolve

SpecEntry == Init /\ [][NextEntry]_vars

\* -------------------------------- SpecAbandon: leaving a game in a jump
\* Games one after the other: frames at the capped dt, the player starts a
\* game from the menu, jumps, and returns to the menu with Escape at any
\* moment of the game.
AbandonFrame ==
  /\ Begun
  /\ Frame(timing_maxDeltaTime, NoInputs, MaxAbandonClock)

AbandonKeyDown ==
  \/ Ready /\ KeyDown("Space")
  \/ game.state = "playing" /\ ~input.hyperspacePressed /\ KeyDown("KeyH")
  \/ game.state = "playing" /\ ~input.menuPressed /\ KeyDown("Escape")

AbandonFetchResolve == FetchResolve(<<>>)

NextAbandon ==
  \/ AbandonFrame
  \/ AbandonKeyDown
  \/ AbandonFetchResolve

SpecAbandon == Init /\ [][NextAbandon]_vars

\* ------------------------------------ SpecSaucer: the saucers' comings
\* One game from its start: frames at the capped dt, the player stays at
\* the centre and holds the fire key, every bullet hits the first rock of
\* the list once it has flown ShotFlight ticks, and a bullet not yet in
\* reach of the rocks may hit the saucer while the saucer crosses the line
\* of fire.  Saucers of either size come from either side, with either
\* first delay, and the next one is due after the shortest or the longest
\* delay; their bullets miss.
OnLineOfFire(dt) ==
  /\ game.state = "playing"
  /\ game.ufo # Null
  /\ LET u == UFOUpdate(game.ufo[1], dt)
     IN /\ u.x - Centre[1] < u.radius + bullet_radius
        /\ Centre[1] - u.x < u.radius + bullet_radius

SaucerFrameWith(o) ==
  /\ Begun
  /\ game.state = "playing" => input.firePressed
  /\ o.bulletOnUFO # 0 => OnLineOfFire(timing_maxDeltaTime)
  /\ Frame(timing_maxDeltaTime,
           [o EXCEPT !.bulletOnAsteroid = Shots(timing_maxDeltaTime, {1})],
           MaxSaucerClock)

SaucerInputs ==
  { [NoInputs EXCEPT !.ufoSize = size, !.ufoOnLeft = onLeft,
                     !.ufoLongDelay = long, !.ufoDelay = delay,
                     !.bulletOnUFO = shot] :
      size \in {"large", "small"}, onLeft \in BOOLEAN, long \in BOOLEAN,
      delay \in {ufo_spawnDelay_min, ufo_spawnDelay_max}, shot \in {0, 1} }

SaucerFrame == \E o \in SaucerInputs : SaucerFrameWith(o)

SaucerKeyDown ==
  \/ Ready /\ KeyDown("Space")
  \/ game.state = "playing" /\ ~input.firePressed /\ KeyDown("Space")

SaucerFetchResolve == FetchResolve(<<>>)

NextSaucer ==
  \/ SaucerFrame
  \/ SaucerKeyDown
  \/ SaucerFetchResolve

SpecSaucer == Init /\ [][NextSaucer]_vars

\* A saucer's crossing on its own: frames arrive whether or not the fire
\* key went down, and the player shoots only when the saucer is overhead.
CrossingFrameWith(o) ==
  /\ Begun
  /\ o.bulletOnUFO # 0 => OnLineOfFire(timing_maxDeltaTime)
  /\ Frame(timing_maxDeltaTime, o, MaxSaucerClock)

CrossingFrame == \E o \in SaucerInputs : CrossingFrameWith(o)

CrossingKeyDown ==
  \/ Ready /\ KeyDown("Space")
  \/ OnLineOfFire(timing_maxDeltaTime) /\ ~input.firePressed /\ KeyDown("Space")

CrossingFetchResolve == FetchResolve(<<>>)

NextCrossing ==
  \/ CrossingFrame
  \/ CrossingKeyDown
  \/ CrossingFetchResolve

\* the fairness a saucer's crossing needs: frames keep arriving while a
\* saucer is in the slot (requestAnimationFrame re-arms itself in Game.loop).
\* While the saucer flies on, the frame's draws play no part, so every
\* frame that leaves it in the slot is this one.
SaucerFlight == game.ufo # Null /\ CrossingFrameWith(NoInputs)

\* the states in which SaucerFlight can be taken: its guards, read off
\* CrossingFrameWith and Frame
CanFly ==
  /\ game.ufo # Null
  /\ game.state = "playing"
  /\ ~input.menuPressed
  /\ playClock + timing_maxDeltaTime <= MaxSaucerClock

\* weak fairness of SaucerFlight, WF_vars(SaucerFlight), with its
\* enabling condition written out as CanFly
FramesKeepArriving == []<>(~CanFly) \/ []<><<SaucerFlight>>_vars

FairSaucer == Init /\ [][NextCrossing]_vars /\ FramesKeepArriving

\* ------------------------------------- SpecPull: thrust against a well
\* One game in which the player holds thrust from its first frame or never
\* thrusts, until the first gravity well has come, above or below the
\* ship's lane or out of its reach, and has pulled for a while.
WellPlaces == { <<Centre[1], gravityWell_spawnMargin>>,
                <<Centre[1], screen_height - gravityWell_spawnMargin>>,
                <<screen_width - gravityWell_spawnMargin,
                  screen_height - gravityWell_spawnMargin>> }

PullFrameWith(place) ==
  /\ Begun
  /\ Frame(timing_maxDeltaTime,
           [NoInputs EXCEPT !.gwPosition = place, !.ufoDelay = ufo_spawnDelay_max],
           MaxPullClock)
  /\ game.gravityWell = Null /\ game'.gravityWell # Null =>
       distance(place, game'.ship.position) >= gravityWell_spawnMinDistanceFromShip

PullFrame == \E place \in WellPlaces : PullFrameWith(place)

PullKeyDown ==
  \/ Ready /\ KeyDown("Space")
  \/ /\ game.state = "playing"
     /\ playClock = 0
     /\ ~input.keys.thrust
     /\ KeyDown("ArrowUp")

PullFetchResolve == FetchResolve(<<>>)

NextPull ==
  \/ PullFrame
  \/ PullKeyDown
  \/ PullFetchResolve

SpecPull == Init /\ [][NextPull]_vars

\* ------------------------------------ SpecHeld: Space is never let go
\* The player presses Space on the menu and holds it: the keyboard repeats
\* the keydown several times within a frame time and no keyup arrives. The
\* score table is full and the ship is shot until the game is over.
HeldFrame ==
  /\ game.state \in {"playing", "gameOver"} => input.firePressed
  /\ OverFrame

HeldKeyDown ==
  /\ \/ Ready
     \/ game.state \in {"playing", "gameOver"} /\ ~input.firePressed
  /\ KeyDown("Space")

HeldFetchResolve == OverFetchResolve

NextHeld ==
  \/ HeldFrame
  \/ HeldKeyDown
  \/ HeldFetchResolve

SpecHeld == Init /\ [][NextHeld]_vars

\* ------------------------------------ FairSpawner: the sampling loops
\* No game runs: createAsteroids or createGravityWell is called once, and
\* each step is one pass of its do-while loop on one draw of randomRange.
\* watch holds the call's arguments and locals. A loop that is running goes
\* on running: the passes are weakly fair.
createAsteroids_avoidRadius == 4000
asteroid_large_radius == 1600
createGravityWell_maxAttempts == 20

Abs(n) == IF n < 0 THEN -n ELSE n

\* the exclusion test with a circle in place of the square
inAvoidZone_Circle(p, avoid) == distance(p, avoid) < createAsteroids_avoidRadius

\* the while condition of createAsteroids
inAvoidZone(p, avoid) ==
  /\ Abs(p[1] - avoid[1]) < createAsteroids_avoidRadius
  /\ Abs(p[2] - avoid[2]) < createAsteroids_avoidRadius

\* the while condition of createGravityWell that allows one attempt more
retryWell_OneMore(attempts, p, avoid) ==
  /\ attempts <= createGravityWell_maxAttempts
  /\ distance(p, avoid) < gravityWell_spawnMinDistanceFromShip

\* the while condition of createGravityWell
retryWell(attempts, p, avoid) ==
  /\ attempts < createGravityWell_maxAttempts
  /\ distance(p, avoid) < gravityWell_spawnMinDistanceFromShip

\* new Asteroid(x, y, 'large')
PlacedAsteroid(p) ==
  [ position |-> p, size |-> "large", isActive |-> TRUE,
    points |-> asteroidPoints("large") ]

\* where the ship may be when the spawner is called
AvoidPoints == { Centre, <<0, 0>> }

\* draws of randomRange(0, width), randomRange(0, height): on the avoid
\* point, in the corner of the square, on its edges, at the screen's corners
AsteroidSamples(avoid) ==
  LET r == createAsteroids_avoidRadius
      all == { avoid, add(avoid, <<r - 1, r - 1>>), add(avoid, <<r, 0>>),
               add(avoid, <<r - 1, r>>), add(avoid, <<-r, -(r - 1)>>),
               <<0, 0>>, <<screen_width - 1, screen_height - 1>> }
  IN { p \in all : p[1] \in 0..(screen_width - 1) /\ p[2] \in 0..(screen_height - 1) }

\* draws of randomRange(spawnMargin, width - spawnMargin) and the like: at
\* the corners of the margins and around the minimum distance from the ship
WellSamples(avoid) ==
  LET d == gravityWell_spawnMinDistanceFromShip
      m == gravityWell_spawnMargin
      all == { add(avoid, <<d - 1, 0>>), add(avoid, <<d, 0>>),
               add(avoid, <<0, d - UnitDen>>),
               add(avoid, <<(3 * d) \div UnitDen, (4 * d) \div UnitDen>>),
               <<m, m>>, <<screen_width - m, screen_height - m>> }
  IN { p \in all : /\ p[1] \in m..(screen_width - m)
                   /\ p[2] \in m..(screen_height - m) }

AsteroidsCall ==
  \E count \in 1..MaxCount : \E avoid \in AvoidPoints :
    Called([call |-> "createAsteroids", count |-> count, avoidPosition |-> avoid,
            asteroids |-> <<>>, candidate |-> Null, returned |-> FALSE])

\* one pass of the do-while of createAsteroids, with the push and the next
\* round of the for loop when the candidate is let through
SampleAsteroid ==
  /\ watch.call = "createAsteroids"
  /\ ~watch.returned
  /\ \E p \in AsteroidSamples(watch.avoidPosition) :
       watch' = IF inAvoidZone(p, watch.avoidPosition)
                THEN [watch EXCEPT !.candidate = <<p>>]
                ELSE LET as == Append(watch.asteroids, PlacedAsteroid(p))
                     IN [watch EXCEPT !.candidate = <<p>>, !.asteroids = as,
                                      !.returned = Len(as) = watch.count]
  /\ UNCHANGED <<game, input, textInput, hsm, async, playClock>>

WellCall ==
  \E level \in PullLevels : \E avoid \in AvoidPoints :
    Called([call |-> "createGravityWell", level |-> level, avoidPosition |-> avoid,
            attempts |-> 0, candidate |-> Null, returned |-> FALSE, well |-> Null])

\* one pass of the do-while of createGravityWell, with the construction of
\* the well when the loop is left
SampleWell ==
  /\ watch.call = "createGravityWell"
  /\ ~watch.returned
  /\ \E p \in WellSamples(watch.avoidPosition) :
     \E duration \in {gravityWell_duration_min, gravityWell_duration_max} :
       LET attempts == watch.attempts + 1
       IN watch' = IF retryWell(attempts, p, watch.avoidPosition)
                   THEN [watch EXCEPT !.candidate = <<p>>, !.attempts = attempts]
                   ELSE [watch EXCEPT
                           !.candidate = <<p>>, !.attempts = attempts,
                           !.returned = TRUE,
                           !.well = <<createGravityWell(watch.level,
                                        [NoInputs EXCEPT !.gwPosition = p,
                                                         !.gwDuration = duration])>>]
  /\ UNCHANGED <<game, input, textInput, hsm, async, playClock>>

NextSpawner ==
  \/ AsteroidsCall
  \/ SampleAsteroid
  \/ WellCall
  \/ SampleWell

FairSpawner ==
  /\ InitEntities
  /\ [][NextSpawner]_vars
  /\ WF_vars(SampleAsteroid)
  /\ WF_vars(SampleWell)

\* ------------------------------------------ SpecWrap: the boundary wrap
\* No game runs: wrapEntity is called once, and once more on its result, on
\* an entity of each radius whose coordinates lie inside the field, on its
\* edges, on the outer lines a radius beyond them, and one unit or a
\* screen's width past those.
WrapCoords(size, margin) ==
  { -margin - size, -margin - 1, -margin, -margin + 1, 0, size \div 2, size,
    size + margin - 1, size + margin, size + margin + 1, size + margin + size }

WrapCall ==
  \E radius \in EntityRadii :
  \E x \in WrapCoords(screen_width, radius) : \E y \in WrapCoords(screen_height, radius) :
    Called([call |-> "wrapEntity", radius |-> radius, before |-> <<x, y>>,
            after |-> wrapEntity(<<x, y>>, radius),
            again |-> wrapEntity(wrapEntity(<<x, y>>, radius), radius)])

SpecWrap == InitEntities /\ [][WrapCall]_vars

\* -------------------------------- SpecRoute: where the lost game leads
\* One player per score table: the table fetched is empty, holds one
\* entry, or is full with a lowest score of nothing or of one large rock.
\* The player may fire once as the game begins, the bullet that has flown
\* ShotFlight ticks breaks the first rock, and the saucer shoots the ship
\* until no life is left.
RouteLists ==
  { <<>>, <<asteroid_large_points>>,
    [k \in 1..highScores_displayCount |-> FullBoardLowest],
    [k \in 1..highScores_displayCount |-> asteroid_large_points] }

RouteFrame ==
  /\ Begun
  /\ \E hit \in {{}, InReach(timing_maxDeltaTime)} :
       Frame(timing_maxDeltaTime,
             [NoInputs EXCEPT !.gwDelay = gravityWell_spawnDelay_max,
                              !.ufoBulletOnShip = hit,
                              !.bulletOnAsteroid = Shots(timing_maxDeltaTime, {1})],
             MaxPlayClock)

RouteKeyDown ==
  /\ \/ Ready
     \/ game.state = "playing" /\ playClock = 0 /\ ~input.firePressed
  /\ KeyDown("Space")

RouteFetchResolve == \E list \in RouteLists : FetchResolve(list)

NextRoute ==
  \/ RouteFrame
  \/ RouteKeyDown
  \/ RouteFetchResolve

SpecRoute == Init /\ [][NextRoute]_vars

\* ------------------------------------- FairMenu: the menu left alone
\* Frames of any admitted dt arrive in the menu and the score table, the
\* cache of the table expired or not; the player presses and releases
\* Space there or keeps away, and leaves a game begun with Escape.
\* Frames keep arriving (requestAnimationFrame re-arms itself in
\* Game.loop) and fetch aborts every request after API_TIMEOUT.
MenuFrameWith(dt, expired) ==
  Frame(dt, [NoInputs EXCEPT !.cacheExpired = expired], MaxHyperClock)

MenuFrame ==
  \E dt \in 1..timing_maxDeltaTime : \E expired \in BOOLEAN : MenuFrameWith(dt, expired)

MenuKeyDown ==
  \/ game.state \in {"start", "viewingScores"} /\ KeyDown("Space")
  \/ game.state = "playing" /\ ~input.menuPressed /\ KeyDown("Escape")

MenuKeyUp == ~input.spaceWasReleased /\ KeyUp("Space")

MenuFetchResolve == \E list \in ServerLists : FetchResolve(list)

NextMenu ==
  \/ MenuFrame
  \/ MenuKeyDown
  \/ MenuKeyUp
  \/ MenuFetchResolve

\* a frame that finds the menu or the score table on the screen
MenuShownFrame == game.state \in {"start", "viewingScores"} /\ MenuFrame

FairMenu ==
  /\ Init
  /\ [][NextMenu]_vars
  /\ WF_vars(MenuShownFrame)
  /\ WF_vars(MenuFetchResolve)

\* the playing dt in which the slowest saucer crosses the screen and leaves
SaucerCrossing ==
  (screen_width + 3 * ufo_large_radius) \div ufo_large_speed + timing_maxDeltaTime

\* ------------------------------------------------------------- claims

\* C1: from playing, the destruction that brings lives to 0 leaves playing
\* in that frame with the UFO and gravity-well slots empty, and the slots
\* stay empty in every state until playing is entered again.
C1_LastLifeEmptiesSlots ==
  [][ /\ (game.state = "playing" /\ game.lives = 1 /\ game'.lives = 0)
         => /\ game'.state \in {"gameOver", "submitScore"}
            /\ game'.ufo = Null
            /\ game'.gravityWell = Null
      /\ (/\ game.state # "playing"
          /\ game'.state # "playing"
          /\ game.ufo = Null
          /\ game.gravityWell = Null)
         => (game'.ufo = Null /\ game'.gravityWell = Null) ]_vars

\* the last life was just shot away: the bullet that did it is still listed
C1_Witness ==
  /\ game.state \in {"gameOver", "submitScore"}
  /\ game.lives = 0
  /\ game.ufo = Null
  /\ \E k \in 1..Len(game.ufoBullets) : ~game.ufoBullets[k].isActive

\* C2: lives starts at 3 and stays within 0..3; it changes only by a
\* destruction in playing, by exactly 1 per frame, or by a reset to 3; the
\* session goes from playing to gameOver or submitScore exactly on the
\* destruction that makes lives 0.
C2_LivesCountDown ==
  /\ [](game.lives \in 0..initialState_lives)
  /\ [][ /\ game'.lives # game.lives
            => \/ /\ game.state = "playing"
                  /\ game'.lives = game.lives - 1
                  /\ ~game'.ship.isActive
                  /\ (game'.state # "playing") <=> (game'.lives = 0)
               \/ /\ game'.lives = initialState_lives
                  /\ game'.state \in {"start", "playing"}
         /\ (game.state = "playing" /\ game'.state \in {"gameOver", "submitScore"})
            => (game.lives = 1 /\ game'.lives = 0) ]_vars

\* two ships lost, the third is waiting to respawn
C2_Witness ==
  /\ game.state = "playing"
  /\ game.lives = 1
  /\ game.respawnTimer > 0
  /\ ~game.ship.isActive

\* C3: the session state changes only along the edges start->playing,
\* start<->viewingScores, viewingScores->playing, playing->start,
\* playing->gameOver, playing->submitScore, gameOver->start,
\* gameOver->playing, submitScore->start, submitScore->viewingScores.
C3_OnlyListedEdges ==
  [][ game'.state # game.state =>
        <<game.state, game'.state>> \in
          { <<"start", "playing">>, <<"start", "viewingScores">>,
            <<"viewingScores", "start">>, <<"viewingScores", "playing">>,
            <<"playing", "start">>, <<"playing", "gameOver">>,
            <<"playing", "submitScore">>, <<"gameOver", "start">>,
            <<"gameOver", "playing">>, <<"submitScore", "start">>,
            <<"submitScore", "viewingScores">> } ]_vars

\* C4: every transition into playing leaves score, lives and level initial,
\* the ship active, exactly startingCount large asteroids, and both spawn
\* timers freshly drawn from their ranges.
C4_FreshGame ==
  [][ (game.state # "playing" /\ game'.state = "playing") =>
        /\ game'.score = initialState_score
        /\ game'.lives = initialState_lives
        /\ game'.level = initialState_level
        /\ game'.ship.isActive
        /\ game'.asteroids = createAsteroids(asteroid_startingCount)
        /\ game'.ufoSpawnTimer \in ufo_spawnDelay_min..ufo_spawnDelay_max
        /\ game'.gravityWellSpawnTimer \in
             gravityWell_spawnDelay_min..gravityWell_spawnDelay_max ]_vars

\* C5: a frame that consumes a menu press in playing ends in start with
\* score, lives and level initial, all four lists empty, UFO and gravity
\* well absent and the respawn timer cleared; nothing was updated and no
\* collision was checked: cooldowns, countdowns, the jump in progress and
\* the score entry are as they were.
C5_MenuPressResets ==
  [][ (SessionFrame /\ game.state = "playing" /\ input.menuPressed) =>
        /\ game'.state = "start"
        /\ game'.score = initialState_score
        /\ game'.lives = initialState_lives
        /\ game'.level = initialState_level
        /\ game'.asteroids = <<>> /\ game'.bullets = <<>>
        /\ game'.ufoBullets = <<>> /\ game'.debris = <<>>
        /\ game'.ufo = Null /\ game'.gravityWell = Null
        /\ game'.respawnTimer = 0
        /\ ~input'.menuPressed
        /\ game'.fireCooldown = game.fireCooldown
        /\ game'.gameOverTimer = game.gameOverTimer
        /\ game'.ship.hyperspaceState = game.ship.hyperspaceState
        /\ game'.ship.hyperspaceTimer = game.ship.hyperspaceTimer
        /\ game'.ship.hyperspaceCooldown = game.ship.hyperspaceCooldown
        /\ textInput' = textInput /\ hsm' = hsm /\ async' = async ]_vars

\* the last frame took the menu branch
C5_Witness == watch.branch = "menu" /\ game.state = "start" /\ playClock = 0

\* C6: gameOver is entered with the countdown at gameOverReturnDelay; each
\* frame in gameOver takes dt off it; the frame that brings it to 0 or
\* below resets to start; a start press consumed before that goes to
\* playing through a reset; and gameOver is always left eventually.
C6_GameOverEnds ==
  /\ [][ (game.state # "gameOver" /\ game'.state = "gameOver")
           => game'.gameOverTimer = timing_gameOverReturnDelay ]_vars
  /\ [][ (OverFrame /\ game.state = "gameOver") =>
           IF game.gameOverTimer - timing_maxDeltaTime <= 0
           THEN /\ game'.state = "start"
                /\ game'.score = initialState_score
                /\ game'.lives = initialState_lives
                /\ game'.level = initialState_level
                /\ game'.asteroids = <<>> /\ game'.bullets = <<>>
                /\ game'.ufoBullets = <<>> /\ game'.debris = <<>>
                /\ game'.ufo = Null /\ game'.gravityWell = Null
           ELSE IF input.startPressed
                THEN /\ game'.state = "playing"
                     /\ game'.score = initialState_score
                     /\ game'.lives = initialState_lives
                     /\ game'.level = initialState_level
                     /\ Len(game'.asteroids) = asteroid_startingCount
                ELSE /\ game'.state = "gameOver"
                     /\ game'.gameOverTimer = game.gameOverTimer - timing_maxDeltaTime ]_vars
  /\ (game.state = "gameOver") ~> (game.state # "gameOver")

\* the countdown has run down to its last frame
C6_Witness ==
  /\ game.state = "gameOver"
  /\ game.gameOverTimer > 0
  /\ game.gameOverTimer <= timing_maxDeltaTime

\* C7: a frame that hands a hyperspace press to the ship starts a jump
\* (shrinking, timer restarted, the new target taken) when the ship is idle
\* with no cooldown left, and otherwise ends exactly as the same frame
\* without the press.
C7_RefusedJumpIsNoOp ==
  [][ \A dt \in 1..timing_maxDeltaTime : \A target \in HyperTargets :
        (HyperFrameWith(dt, target) /\ game.state = "playing" /\ Jumps(dt)) =>
          IF game.ship.hyperspaceState = "idle" /\ game.ship.hyperspaceCooldown <= 0
          THEN /\ game'.ship.hyperspaceState = "shrinking"
               /\ game'.ship.hyperspaceTimer = dt
               /\ game'.ship.hyperspaceTargetPosition = target
          ELSE game' = update([World EXCEPT !.i.hyperspacePressed = FALSE], dt,
                              [NoInputs EXCEPT !.target = target]).g ]_vars

\* a press was turned down because of the cooldown
C7_Witness ==
  /\ watch.refused
  /\ game.ship.hyperspaceState = "idle"
  /\ game.ship.hyperspaceCooldown > 0

\* C8: the phase changes only idle->shrinking->warping->expanding->idle, one
\* change per frame; a phase is left only when the dt spent in it has
\* reached its duration; the target is fixed for the whole jump; a frame
\* that ends in warping leaves the position alone; the frame of
\* warping->expanding puts the ship on the target with zero velocity, and
\* every other frame moves it by velocity * dt.
C8_PhaseOrder ==
  [][ LET from == game.ship.hyperspaceState
          to == game'.ship.hyperspaceState
      IN /\ to # from
            => <<from, to>> \in { <<"idle", "shrinking">>, <<"shrinking", "warping">>,
                                  <<"warping", "expanding">>, <<"expanding", "idle">> }
         /\ from # "idle"
            => game'.ship.hyperspaceTargetPosition = game.ship.hyperspaceTargetPosition
         /\ \A dt \in 1..timing_maxDeltaTime :
              (HyperFrame /\ game.state = "playing" /\ playClock' = playClock + dt) =>
                /\ (from = "shrinking" /\ to # from)
                   => watch.phaseClock + dt >= hyperspace_shrinkTime
                /\ (from = "warping" /\ to # from)
                   => watch.phaseClock + dt >= hyperspace_warpTime
                /\ (from = "expanding" /\ to # from)
                   => watch.phaseClock + dt >= hyperspace_expandTime
                /\ to = "warping" => game'.ship.position = game.ship.position
                /\ (from = "warping" /\ to = "expanding")
                   => /\ game'.ship.position = game.ship.hyperspaceTargetPosition
                      /\ game'.ship.velocity = <<0, 0>>
                /\ (to # "warping" /\ ~(from = "warping" /\ to = "expanding"))
                   => game'.ship.position =
                        wrapEntity(add(game.ship.position,
                                       scale(game'.ship.velocity, dt)), ship_radius) ]_vars

\* the ship has just been put on its target, away from where it started,
\* after the warp took longer than its duration
C8_Witness ==
  /\ game.ship.hyperspaceState = "expanding"
  /\ watch.phaseClock = 0
  /\ game.ship.position = game.ship.hyperspaceTargetPosition
  /\ game.ship.position # Centre
  /\ watch.cycleClock > hyperspace_shrinkTime + hyperspace_warpTime

\* C9 as stated: the frame that returns the ship to idle ends a jump of
\* exactly shrink+warp+expand, with the cooldown at its configured value and
\* the ship on its target.
C9_ExactCycle ==
  [][ (game.ship.hyperspaceState = "expanding" /\ game'.ship.hyperspaceState = "idle") =>
        /\ watch'.cycleClock = hyperspace_shrinkTime + hyperspace_warpTime
                               + hyperspace_expandTime
        /\ game'.ship.hyperspaceCooldown = hyperspace_cooldown
        /\ game'.ship.position = game'.ship.hyperspaceTargetPosition ]_vars

\* C9 amended: the frame that returns the ship to idle ends a jump of at
\* least shrink+warp+expand and less than three frames more; the cooldown
\* is its configured value less that frame's dt; the ship is on its target
\* if it has gained no velocity since the teleport.
C9_CycleWithinThreeFrames ==
  [][ \A dt \in 1..timing_maxDeltaTime :
        (/\ HyperFrame
         /\ playClock' = playClock + dt
         /\ game.ship.hyperspaceState = "expanding"
         /\ game'.ship.hyperspaceState = "idle") =>
          /\ watch'.cycleClock >= hyperspace_shrinkTime + hyperspace_warpTime
                                  + hyperspace_expandTime
          /\ watch'.cycleClock < hyperspace_shrinkTime + hyperspace_warpTime
                                 + hyperspace_expandTime + 3 * timing_maxDeltaTime
          /\ game'.ship.hyperspaceCooldown = hyperspace_cooldown - dt
          /\ game'.ship.velocity = <<0, 0>>
             => game'.ship.position = game'.ship.hyperspaceTargetPosition ]_vars

\* a jump has just ended late and off its target
C9_Witness ==
  /\ game.ship.hyperspaceState = "idle"
  /\ watch.cycleClock > hyperspace_shrinkTime + hyperspace_warpTime
                        + hyperspace_expandTime
  /\ game.ship.hyperspaceCooldown > 0
  /\ game.ship.position # game.ship.hyperspaceTargetPosition

\* C10: in a frame that takes a life, the ship at the collision pass (its
\* jump phase and invulnerability are not touched afterwards) was idle and
\* its invulnerability had run out.
C10_ImmuneShipSurvives ==
  [][ game'.lives < game.lives =>
        /\ game'.ship.hyperspaceState = "idle"
        /\ game'.ship.invulnerableTime <= 0
        /\ ~game'.ship.isActive ]_vars

\* a live hostile bullet at the age of contact, and the ship alive in the
\* middle of a jump
C10_Witness ==
  /\ game.state = "playing"
  /\ game.ship.isActive
  /\ game.ship.hyperspaceState # "idle"
  /\ \E k \in 1..Len(game.ufoBullets) :
       /\ game.ufoBullets[k].isActive
       /\ game.ufoBullets[k].lifetime = bullet_lifetime - BulletFlight

\* C11: an accepted jump leaves the invulnerability at least
\* shrink+warp+expand+grace and not below what it was at the call (the
\* frame's Ship.update then takes dt off it); and in every state the ship in
\* a jump phase has a positive invulnerability countdown.
C11_JumpGrantsImmunity ==
  /\ [][ \A dt \in 1..timing_maxDeltaTime :
           LET s == handleRespawn(game, dt).ship
               a == activateHyperspace(s, game'.ship.hyperspaceTargetPosition)
           IN (/\ EvadeFrame
               /\ playClock' = playClock + dt
               /\ Jumps(dt)
               /\ canHyperspace(s)) =>
                /\ a.invulnerableTime >= hyperspace_shrinkTime + hyperspace_warpTime
                                         + hyperspace_expandTime
                                         + hyperspace_invulnerability
                /\ a.invulnerableTime >= s.invulnerableTime
                /\ game'.ship.hyperspaceState = "shrinking"
                /\ game'.ship.invulnerableTime = a.invulnerableTime - dt ]_vars
  /\ [](game.ship.hyperspaceState # "idle" => game.ship.invulnerableTime > 0)

\* a jump accepted while the respawn invulnerability was still above the
\* jump's own grant
C11_Witness ==
  /\ game.state = "playing"
  /\ game.ship.hyperspaceState = "shrinking"
  /\ game.ship.invulnerableTime > hyperspace_shrinkTime + hyperspace_warpTime
                                  + hyperspace_expandTime
                                  + hyperspace_invulnerability

C13_StaleCompletionIgnored ==
  [][ (/\ game.state # "submitScore"
       /\ \/ async'.submit < async.submit
          \/ async'.load < async.load)
        => /\ game'.state = game.state
           /\ game.state = "playing" => game' = game ]_vars

\* C14: for a service that is unreachable, times out or answers non-OK,
\* fetchHighScores returns the empty list and submitHighScore a result
\* without success, and neither throws, nor do loadScores and submitScore;
\* the step that resolves such a fetch leaves the game as it is with an
\* empty score list, and the one that resolves such a submission is the
\* failure continuation of submitPlayerScore.
C14_ServiceFailureDegrades ==
  [][ \A answer \in FailedAnswers : \A list \in ServerLists : \A accepted \in BOOLEAN :
        /\ fetchHighScores(answer, list) = Returned(<<>>)
        /\ submitHighScore(answer, accepted) = Returned([success |-> FALSE])
        /\ ~loadScores(hsm.scores, answer, list).threw
        /\ submitScore(answer, accepted) = Returned(FALSE)
        /\ ServiceFetchResolveWith(answer, list)
             => game' = game /\ hsm' = [scores |-> <<>>, loaded |-> TRUE]
        /\ ServiceSubmitResolveWith(answer, accepted)
             => /\ game' = submitResolved(World, FALSE).g
                /\ game'.state = "start" ]_vars

\* the fetch of Game.start has come back with no scores and a game is running
C14_Witness ==
  /\ game.state = "playing"
  /\ playClock > 0
  /\ hsm.loaded /\ hsm.scores = <<>>
  /\ async.fetch = 0

\* C15: split of a small asteroid returns the empty list; split of a large
\* (medium) one returns exactly two medium (small) asteroids at the
\* parent's position, each with the speed configured for its size; the
\* pieces the game works with are those of this split.
C15_SplitHalves ==
  watch.call = "split" =>
    LET a == watch.self
        r == watch.result
    IN /\ a.size = "small" => r = <<>>
       /\ a.size # "small" =>
            /\ Len(r) = 2
            /\ \A k \in 1..2 :
                 /\ r[k].size = (IF a.size = "large" THEN "medium" ELSE "small")
                 /\ r[k].position = a.position
                 /\ r[k].isActive
                 /\ r[k].velocity[1] * r[k].velocity[1]
                    + r[k].velocity[2] * r[k].velocity[2]
                    = asteroidSpeed(r[k].size) * asteroidSpeed(r[k].size)
       /\ Len(split(a)) = Len(r)
       /\ \A k \in 1..Len(r) : /\ split(a)[k].size = r[k].size
                                /\ split(a)[k].points = r[k].points

\* a large asteroid away from the origin has been split along two oblique
\* directions
C15_Witness ==
  /\ watch.call = "split"
  /\ watch.self.size = "large"
  /\ watch.self.position = Centre
  /\ Len(watch.result) = 2
  /\ \A k \in 1..2 : watch.result[k].velocity[1] # 0 /\ watch.result[k].velocity[2] # 0

\* C16: checkCollision gives the same answer with its arguments swapped;
\* it is true exactly when both entities are active and the distance of
\* their positions is strictly below the sum of their radii (touching
\* circles do not collide), and false when either is inactive.
C16_CollisionSymmetricStrict ==
  watch.call = "checkCollision" =>
    LET a == watch.a
        b == watch.b
        dx == a.position[1] - b.position[1]
        dy == a.position[2] - b.position[2]
        reach == a.radius + b.radius
    IN /\ watch.result = watch.swapped
       /\ watch.result <=> (a.isActive /\ b.isActive /\ dx * dx + dy * dy < reach * reach)
       /\ (~a.isActive \/ ~b.isActive) => ~watch.result

\* two active circles that touch along the diagonal do not collide
C16_Witness ==
  /\ watch.call = "checkCollision"
  /\ watch.a.isActive /\ watch.b.isActive
  /\ watch.a.position[1] # watch.b.position[1]
  /\ watch.a.position[2] # watch.b.position[2]
  /\ (watch.a.position[1] - watch.b.position[1]) * (watch.a.position[1] - watch.b.position[1])
     + (watch.a.position[2] - watch.b.position[2]) * (watch.a.position[2] - watch.b.position[2])
     = (watch.a.radius + watch.b.radius) * (watch.a.radius + watch.b.radius)
  /\ ~watch.result

C18_ShootOncePerCooldown ==
  watch.call = "tryShoot" =>
    LET u == watch.self
        base == IF u.size = "large" THEN ufo_large_shootCooldown
                ELSE ufo_small_shootCooldown
    IN /\ 10 * u.shootCooldown = base * Max(3, 11 - watch.level)
       /\ u.shootTimer <= 0 =>
            /\ watch.first.shot
            /\ watch.first.ufo = [u EXCEPT !.shootTimer = u.shootCooldown]
            /\ ~watch.second.shot
            /\ watch.second.ufo = watch.first.ufo
       /\ u.shootTimer > 0 =>
            /\ ~watch.first.shot
            /\ watch.first.ufo = u

\* a small saucer of a late level has fired on an overrun timer and may not
\* fire again
C18_Witness ==
  /\ watch.call = "tryShoot"
  /\ watch.self.size = "small"
  /\ watch.self.shootCooldown < ufo_small_shootCooldown
  /\ watch.self.shootTimer < 0
  /\ watch.first.shot
  /\ ~watch.second.shot

\* C19: a playing frame never ends with an empty asteroid list: when the
\* collisions have left none, the level rises by exactly 1 in that frame
\* and the list is then exactly startingCount + (new level - 1) large
\* asteroids (startingCount + 1 after the first wave); the session state
\* is left as it was unless a life was lost; and from one playing state to
\* the next the level changes in no other way.
C19_WaveOnClearedField ==
  [][ game.state = "playing" =>
        /\ playClock' # playClock /\ ~input.menuPressed =>
              /\ Len(game'.asteroids) > 0
              /\ game'.level # game.level =>
                    /\ game'.level = game.level + 1
                    /\ Len(game'.asteroids) = asteroid_startingCount + (game'.level - 1)
                    /\ game.level = 1 =>
                          Len(game'.asteroids) = asteroid_startingCount + 1
                    /\ \A a \in 1..Len(game'.asteroids) :
                          game'.asteroids[a] = NewAsteroid("large")
                    /\ game'.state = game.state \/ game'.lives < game.lives
        /\ game'.state = "playing" /\ game'.level # game.level =>
              /\ playClock' # playClock
              /\ game'.level = game.level + 1
              /\ game'.asteroids = createAsteroids(asteroid_startingCount + game.level)
    ]_vars

\* the first wave has been shot to pieces and the second wave stands
C19_Witness ==
  /\ game.state = "playing"
  /\ game.level = 2
  /\ game.score > 0
  /\ Len(game.asteroids) = asteroid_startingCount + 1
  /\ \A a \in 1..Len(game.asteroids) : game.asteroids[a].size = "large"

\* what an asteroid is worth in all: its own points and those of the pieces
\* it splits into
Worth(size) ==
  CASE size = "large" -> asteroid_large_points + 2 * (asteroid_medium_points + 2 * asteroid_small_points)
    [] size = "medium" -> asteroid_medium_points + 2 * asteroid_small_points
    [] OTHER -> asteroid_small_points

\* the points of the asteroids first..last of a list
PointsOf(as, first, last) ==
  LET sum[k \in (first - 1)..last] ==
        IF k < first THEN 0 ELSE sum[k - 1] + as[k].points
  IN sum[last]

\* the worth of the asteroids still on the field
Standing(as) ==
  LET sum[k \in 0..Len(as)] ==
        IF k = 0 THEN 0 ELSE sum[k - 1] + Worth(as[k].size)
  IN sum[Len(as)]

\* the worth of the waves created up to a level
Waves(level) ==
  LET sum[l \in 0..level] ==
        IF l = 0 THEN 0
        ELSE sum[l - 1] + (asteroid_startingCount + l - 1) * Worth("large")
  IN sum[level]

\* the pieces of the asteroids first..last of a list, in order
RECURSIVE PiecesOf(_, _, _)
PiecesOf(as, first, last) ==
  IF first > last THEN <<>>
  ELSE split(as[first]) \o PiecesOf(as, first + 1, last)

\* C20: in one collision pass the asteroids destroyed are as many as the
\* smaller of the bullets in reach and the asteroids overlapped (a bullet
\* destroys at most one asteroid, an asteroid overlapped by several bullets
\* is destroyed once); each adds exactly its points to the score and is
\* replaced by its pieces once; so the score and the worth of what still
\* stands always add up to the worth of the waves created, and 4 large
\* asteroids destroyed are 4 * largePoints.
C20_EachRockScoredOnce ==
  /\ [][ \A overlapped \in ShootTargets :
           game.state = "playing" /\ ShootFrameWith(overlapped) =>
             LET bs == ActiveOnly(UpdateAll(game.bullets, timing_maxDeltaTime))
                 reach == Cardinality({ b \in 1..Len(bs) :
                                          bs[b].lifetime <= bullet_lifetime - ShotFlight })
                 n == Min(reach, Cardinality(overlapped \cap (1..Len(game.asteroids))))
                 left == SubSeq(game.asteroids, n + 1, Len(game.asteroids))
                         \o PiecesOf(game.asteroids, 1, n)
             IN /\ game'.score = game.score + PointsOf(game.asteroids, 1, n)
                /\ Cardinality({ b \in 1..Len(game'.bullets) :
                                   ~game'.bullets[b].isActive }) = n
                /\ game'.asteroids =
                     IF left = <<>>
                     THEN createAsteroids(asteroid_startingCount + game.level)
                     ELSE left
      ]_vars
  /\ [](game.state = "playing" =>
          /\ game.score + Standing(game.asteroids) = Waves(game.level)
          /\ ( /\ game.level = 1
               /\ Len(game.asteroids) = 2 * asteroid_startingCount
               /\ \A a \in 1..Len(game.asteroids) : game.asteroids[a].size = "medium" )
             => game.score = 4 * asteroid_large_points)

\* two bullets were in reach of the one asteroid overlapped: the first has
\* hit it and the second flies on; the asteroid has been scored, and all 4
\* large asteroids of the first wave are gone
C20_Witness ==
  /\ game.state = "playing"
  /\ game.level = 1
  /\ game.score > 4 * asteroid_large_points
  /\ \E b1, b2 \in 1..Len(game.bullets) :
       /\ b1 < b2
       /\ ~game.bullets[b1].isActive
       /\ game.bullets[b2].isActive
       /\ game.bullets[b2].lifetime <= bullet_lifetime - ShotFlight

\* C21: a playing frame that destroys the ship with a life left appends
\* debris made at the ship's position, clears the buffered input, leaves
\* the ship inactive and arms the respawn countdown with respawnDelay;
\* while the countdown lasts the ship stays inactive and no press is acted
\* on or consumed; the first frame whose dt takes the countdown to 0 or
\* below calls Ship.reset, which leaves the ship active at the centre with
\* zero velocity and invulnerableTime = invulnerabilityOnSpawn, and no
\* later frame resets the ship again.
C21_RespawnAfterDelay ==
  [][ game.state = "playing" /\ playClock' = playClock + timing_maxDeltaTime =>
        LET dt == timing_maxDeltaTime
            respawned == handleRespawn(game, dt).ship
        IN /\ game.ship.isActive /\ ~game'.ship.isActive /\ game'.lives > 0 =>
                /\ game'.lives = game.lives - 1
                /\ Len(game'.debris) > 0
                /\ game'.debris[Len(game'.debris)] = NewDebris(game'.ship.position)
                /\ input' = clearAll(input)
                /\ game'.respawnTimer = timing_respawnDelay
                /\ game'.state = "playing"
           /\ game.respawnTimer > dt =>
                /\ ~game.ship.isActive /\ ~game'.ship.isActive
                /\ game'.respawnTimer = game.respawnTimer - dt
                /\ input' = input
                /\ game'.ship.velocity = game.ship.velocity
                /\ game'.ship.hyperspaceState = game.ship.hyperspaceState
                /\ Len(game'.bullets) <= Len(game.bullets)
           /\ game.respawnTimer > 0 /\ game.respawnTimer <= dt =>
                /\ respawned = [game.ship EXCEPT
                                  !.position = Centre, !.velocity = <<0, 0>>,
                                  !.isActive = TRUE,
                                  !.invulnerableTime = ship_invulnerabilityOnSpawn]
                /\ game'.ship.isActive
                /\ game'.respawnTimer <= 0
                /\ game'.ship.invulnerableTime >= ship_invulnerabilityOnSpawn - dt
                /\ ~input.hyperspacePressed =>
                     /\ game'.ship.position = Centre
                     /\ game'.ship.velocity = <<0, 0>>
                     /\ game'.ship.invulnerableTime = ship_invulnerabilityOnSpawn - dt
           /\ game.respawnTimer <= 0 =>
                /\ game.ship.isActive
                /\ game'.ship.isActive => game'.respawnTimer = game.respawnTimer
                /\ ~input.hyperspacePressed =>
                     game'.ship.invulnerableTime <= game.ship.invulnerableTime
    ]_vars

\* the ship, wrecked where it had jumped to, is back at the centre two
\* frames after its respawn and a life is gone
C21_Witness ==
  /\ game.state = "playing"
  /\ game.lives = initialState_lives - 1
  /\ game.ship.isActive
  /\ game.ship.position = Centre
  /\ game.ship.invulnerableTime = ship_invulnerabilityOnSpawn - 2 * timing_maxDeltaTime
  /\ game.respawnTimer <= 0
  /\ game.ship.hyperspaceCooldown > 0

\* C22: whenever the session is in playing and the ship is inactive, the
\* respawn countdown is above 0 (so that playing frames bring the ship
\* back).
C22_InactiveShipCountsDown ==
  game.state = "playing" /\ ~game.ship.isActive => game.respawnTimer > 0

\* C23: for one game-over at most one submission is issued: a frame of the
\* score entry issues no request while one issued by this entry (the
\* submission or the reload that follows it) has not completed.
C23_OneRequestPerEntry ==
  [][ game.state = "submitScore" /\ async.submit + async.load > 0
        => async'.submit <= async.submit ]_vars

\* C24: no ship comes out of a playing frame active, idle and vulnerable
\* when that frame's collision pass found it overlapping an asteroid and
\* the UFO body: such a ship is destroyed in the frame.
C24_TouchDestroysShip ==
  [][ \A hit \in {{}, InReach(timing_maxDeltaTime)} :
        (/\ game.state = "playing"
         /\ Len(game.asteroids) > 0
         /\ EvadeFrameWith(hit, TRUE))
        => ~(/\ game'.ship.isActive
             /\ ~isInvulnerable(game'.ship)
             /\ ~isInHyperspace(game'.ship)) ]_vars

\* C25: when a frame's update has returned, no inactive asteroid, player
\* bullet, hostile bullet or debris is left in its list.
C25_NoInactiveLeftBehind ==
  /\ \A a \in 1..Len(game.asteroids) : game.asteroids[a].isActive
  /\ \A b \in 1..Len(game.bullets) : game.bullets[b].isActive
  /\ \A b \in 1..Len(game.ufoBullets) : game.ufoBullets[b].isActive
  /\ \A d \in 1..Len(game.debris) : game.debris[d].isActive

\* C26: the frame that starts a game leaves the ship idle and with no
\* hyperspace cooldown running.
C26_NewGameStartsIdle ==
  [][ game.state # "playing" /\ game'.state = "playing" =>
        /\ game'.ship.hyperspaceState = "idle"
        /\ game'.ship.hyperspaceCooldown <= 0 ]_vars

\* C27: a UFO that a playing frame spawns while the session is at level L
\* has the shoot cooldown base(size) * max(0.3, 1 - 0.1 (L - 1)).
C27_SaucerCooldownFollowsLevel ==
  [][ game.state = "playing" /\ game.ufo = Null /\ game'.ufo # Null =>
        LET u == game'.ufo[1]
            base == IF u.size = "large" THEN ufo_large_shootCooldown
                    ELSE ufo_small_shootCooldown
        IN 10 * u.shootCooldown = base * Max(3, 10 - (game.level - 1)) ]_vars

\* C28: the UFO slot holds at most one UFO; a playing frame fills the empty
\* slot only when the spawn timer, less the frame's dt, is <= 0, and
\* otherwise only takes dt off the timer; a playing frame that empties the
\* slot (the UFO has left sideways or was shot) and stays in play leaves
\* the timer within [spawnDelay.min, spawnDelay.max]; a UFO in the slot
\* is never replaced by another; so at least spawnDelay.min of playing dt
\* passes between a removal and the next spawn.
C28_OneSaucerAtATime ==
  /\ [][ game.state = "playing" /\ playClock' = playClock + timing_maxDeltaTime =>
          LET dt == timing_maxDeltaTime
          IN /\ game.ufo = Null /\ game'.ufo # Null =>
                  /\ game.ufoSpawnTimer - dt <= 0
                  /\ game'.ufoSpawnTimer = game.ufoSpawnTimer - dt
             /\ game.ufo = Null /\ game'.ufo = Null /\ game'.state = "playing" =>
                  /\ game'.ufoSpawnTimer = game.ufoSpawnTimer - dt
                  /\ game'.ufoSpawnTimer > 0
             /\ game.ufo # Null /\ game'.ufo = Null /\ game'.state = "playing" =>
                  /\ game'.ufoSpawnTimer >= ufo_spawnDelay_min
                  /\ game'.ufoSpawnTimer <= ufo_spawnDelay_max
             /\ game.ufo # Null /\ game'.ufo # Null =>
                  /\ game'.ufo[1].size = game.ufo[1].size
                  /\ game'.ufo[1].x = game.ufo[1].x
                       + game.ufo[1].baseSpeed * game.ufo[1].horizontalDirection * dt
                  /\ game'.ufoSpawnTimer = game.ufoSpawnTimer
      ]_vars
  /\ [](/\ Len(game.ufo) <= 1
        /\ game.state = "playing" /\ game.ufo = Null =>
             /\ game.ufoSpawnTimer > 0
             /\ game.ufoSpawnTimer <= ufo_spawnDelay_max)

\* a second UFO is in the slot: the first, due after spawnDelay.min, has
\* been shot or has left, and twice spawnDelay.min has been played
C28_Witness ==
  /\ game.state = "playing"
  /\ game.ufo # Null
  /\ playClock >= 2 * ufo_spawnDelay_min

\* C29: a UFO enters at x = -radius heading right or at width + radius
\* heading left; every frame moves its x by baseSpeed * direction * dt and
\* nothing else does (no wrap), and its direction never changes; a UFO in
\* the slot is never more than 2 * radius beyond the edge it heads for,
\* since the first frame that takes it there removes it; a frame removes
\* a UFO only so or when it is shot; so a UFO that is not shot and has the
\* playing time left to cross is eventually removed.
C29_SaucerLeavesAcross ==
  /\ [][ game.state = "playing" /\ playClock' = playClock + timing_maxDeltaTime =>
          LET dt == timing_maxDeltaTime
          IN /\ game.ufo = Null /\ game'.ufo # Null =>
                  game'.ufo[1].x = IF game'.ufo[1].horizontalDirection > 0
                                   THEN -game'.ufo[1].radius
                                   ELSE screen_width + game'.ufo[1].radius
             /\ game.ufo # Null /\ game'.ufo # Null =>
                  /\ game'.ufo[1].horizontalDirection = game.ufo[1].horizontalDirection
                  /\ game'.ufo[1].x = game.ufo[1].x
                       + game.ufo[1].baseSpeed * game.ufo[1].horizontalDirection * dt
             /\ game.ufo # Null /\ game'.ufo = Null =>
                  LET u == game.ufo[1]
                      x == u.x + u.baseSpeed * u.horizontalDirection * dt
                  IN \/ u.horizontalDirection > 0 /\ x > screen_width + 2 * u.radius
                     \/ u.horizontalDirection < 0 /\ x < -(2 * u.radius)
                     \/ game'.score >= game.score + u.points
      ]_vars
  /\ [](game.ufo # Null =>
          LET u == game.ufo[1]
          IN /\ u.horizontalDirection \in {-1, 1}
             /\ u.horizontalDirection > 0 =>
                  u.x >= -u.radius /\ u.x <= screen_width + 2 * u.radius
             /\ u.horizontalDirection < 0 =>
                  u.x <= screen_width + u.radius /\ u.x >= -(2 * u.radius))
  /\ (game.ufo # Null /\ playClock <= MaxSaucerClock - SaucerCrossing)
       ~> (game.ufo = Null)

\* a UFO heading left is beyond the left edge, by more than its radius and
\* at most twice its radius, in its last frame on the screen
C29_Witness ==
  /\ game.state = "playing"
  /\ game.ufo # Null
  /\ game.ufo[1].horizontalDirection < 0
  /\ game.ufo[1].x < -game.ufo[1].radius

\* C30: a playing frame adds a hostile bullet (the only one in the list that
\* has not aged) only if a UFO was in the slot with its shoot timer at most
\* dt, so <= 0 once UFO.update has run, and the ship, when updateUFO runs,
\* is active and not in hyperspace; in a frame where the ship is then
\* inactive or in hyperspace the UFO's timer only counts down: it is not
\* set back to the cooldown.
C30_SaucerShootsOnlyAtShipInPlay ==
  [][ game.state = "playing" /\ playClock' = playClock + timing_maxDeltaTime =>
        LET dt == timing_maxDeltaTime
            fired == \E k \in 1..Len(game'.ufoBullets) :
                       game'.ufoBullets[k].lifetime = bullet_lifetime
            inPlay == /\ game'.ship.isActive \/ game'.lives < game.lives
                      /\ game'.ship.hyperspaceState = "idle"
        IN /\ fired => /\ inPlay
                       /\ game.ufo # Null
                       /\ game.ufo[1].shootTimer <= dt
           /\ ~inPlay /\ game.ufo # Null /\ game'.ufo # Null =>
                game'.ufo[1].shootTimer =
                  IF game.ufo[1].shootTimer > 0
                  THEN game.ufo[1].shootTimer - dt
                  ELSE game.ufo[1].shootTimer
    ]_vars

\* the UFO's timer has run out and stays so: the ship is away
C30_Witness ==
  /\ game.state = "playing"
  /\ game.ufo # Null
  /\ game.ufo[1].shootTimer <= 0
  /\ ~game.ship.isActive \/ game.ship.hyperspaceState # "idle"

\* C31: every bullet in the player's or the hostile list has a lifetime in
\* 1..bullet_lifetime: the update that takes it to 0 or below deactivates it
\* and the filter of that frame drops it; a playing frame ages each bullet it
\* keeps by exactly dt, and a kept bullet that is active was active before
\* (nothing re-activates it); the only other bullets are the ones made in
\* the frame: a player bullet, fired before the update loop and aged once,
\* and a hostile bullet, pushed after it.
C31_BulletsExpire ==
  /\ [](/\ \A k \in 1..Len(game.bullets) :
            game.bullets[k].lifetime \in 1..bullet_lifetime
        /\ \A k \in 1..Len(game.ufoBullets) :
            game.ufoBullets[k].lifetime \in 1..bullet_lifetime)
  /\ [][ game.state = "playing" /\ playClock' = playClock + timing_maxDeltaTime =>
          LET dt == timing_maxDeltaTime
              Aged(old, new, fresh) ==
                \A k \in 1..Len(new) :
                  \/ new[k].lifetime = fresh
                  \/ \E j \in 1..Len(old) :
                       /\ old[j].lifetime = new[k].lifetime + dt
                       /\ new[k].isActive => old[j].isActive
          IN /\ Aged(game.bullets, game'.bullets, bullet_lifetime - dt)
             /\ Aged(game.ufoBullets, game'.ufoBullets, bullet_lifetime)
      ]_vars

\* a player bullet in its last frame, with a hostile bullet in flight
C31_Witness ==
  /\ game.state = "playing"
  /\ \E k \in 1..Len(game.bullets) : \E j \in 1..Len(game.ufoBullets) :
       game.bullets[k].lifetime <= timing_maxDeltaTime

SquaredSpeed(v) == v[1] * v[1] + v[2] * v[2]

\* C32 as stated: at the end of every frame the ship's speed is at most
\* ship_maxSpeed.
C32_SpeedWithinMaximum ==
  SquaredSpeed(game.ship.velocity) <= ship_maxSpeed * ship_maxSpeed

\* C32, amended: a playing frame with no gravity well in the slot keeps a
\* speed that is within ship_maxSpeed within it, and a frame in which the
\* ship thrusts ends with a speed of at most ship_maxSpeed plus what the
\* well's pull adds in one frame, the pull being applied after the clamp.
C32_SpeedWithinMaximumButForPull ==
  [][ game.state = "playing" /\ playClock' = playClock + timing_maxDeltaTime =>
        LET dt == timing_maxDeltaTime
            most == ship_maxSpeed + getGravityWellPullStrength(game.level) * dt
        IN /\ (/\ game.gravityWell = Null
               /\ SquaredSpeed(game.ship.velocity) <= ship_maxSpeed * ship_maxSpeed)
              => SquaredSpeed(game'.ship.velocity) <= ship_maxSpeed * ship_maxSpeed
           /\ game'.ship.isThrusting
              => SquaredSpeed(game'.ship.velocity) <= most * most
    ]_vars

\* the ship thrusts at full speed and the well has just added its pull
C32_Witness ==
  /\ game.state = "playing"
  /\ game.ship.isThrusting
  /\ game.gravityWell # Null
  /\ SquaredSpeed(game.ship.velocity) > ship_maxSpeed * ship_maxSpeed

\* C33: a step registers a start press (startPressed rises) only while the
\* release flag spaceWasReleased is set, and the flag is set again only by a
\* keyup of Space, a step that touches nothing but the input handler and
\* leaves the fire key up; so with Space held no further start press is
\* registered.
C33_StartPressNeedsRelease ==
  [][ /\ (~input.startPressed /\ input'.startPressed) => input.spaceWasReleased
      /\ (~input.spaceWasReleased /\ input'.spaceWasReleased)
           => (game' = game /\ ~input'.keys.fire) ]_vars

\* C34: a call of createAsteroids returns: the sampling for each asteroid
\* stops after a bounded number of attempts.
C34_PlacementTerminates ==
  (watch.call = "createAsteroids") ~> (watch.call = "createAsteroids" /\ watch.returned)

\* C35: createAsteroids has returned exactly when count asteroids are
\* placed; every placed asteroid is large, inside the screen and outside the
\* open square of half-side avoidRadius around the avoid-point, and its
\* circle does not overlap the ship's circle around that point.
C35_AsteroidsPlacedClear ==
  watch.call = "createAsteroids" =>
    /\ Len(watch.asteroids) <= watch.count
    /\ watch.returned <=> Len(watch.asteroids) = watch.count
    /\ \A k \in 1..Len(watch.asteroids) :
         LET a == watch.asteroids[k]
             dx == a.position[1] - watch.avoidPosition[1]
             dy == a.position[2] - watch.avoidPosition[2]
         IN /\ a.size = "large"
            /\ a.isActive
            /\ a.position[1] \in 0..screen_width
            /\ a.position[2] \in 0..screen_height
            /\ \/ dx >= createAsteroids_avoidRadius \/ -dx >= createAsteroids_avoidRadius
               \/ dy >= createAsteroids_avoidRadius \/ -dy >= createAsteroids_avoidRadius
            /\ distance(a.position, watch.avoidPosition)
                 >= asteroid_large_radius + ship_radius

\* the call has returned its asteroids, one of them on the edge of the
\* square, level with the avoid-point in one coordinate
C35_Witness ==
  /\ watch.call = "createAsteroids"
  /\ watch.returned
  /\ watch.count = MaxCount
  /\ \E k \in 1..Len(watch.asteroids) :
       watch.asteroids[k].position =
         add(watch.avoidPosition, <<createAsteroids_avoidRadius, 0>>)

\* C36: createGravityWell draws at most maxAttempts candidates and leaves
\* its loop; it returns a well at the last candidate drawn, within the spawn
\* margins, and at least spawnMinDistanceFromShip from the avoid-point
\* unless maxAttempts candidates were drawn.
C36_WellPlaced ==
  /\ [](watch.call = "createGravityWell" =>
          /\ watch.attempts <= createGravityWell_maxAttempts
          /\ watch.returned =>
               /\ watch.well # Null
               /\ watch.well[1].position = watch.candidate[1]
               /\ watch.well[1].position[1] \in
                    gravityWell_spawnMargin..(screen_width - gravityWell_spawnMargin)
               /\ watch.well[1].position[2] \in
                    gravityWell_spawnMargin..(screen_height - gravityWell_spawnMargin)
               /\ \/ distance(watch.well[1].position, watch.avoidPosition)
                       >= gravityWell_spawnMinDistanceFromShip
                  \/ watch.attempts = createGravityWell_maxAttempts)
  /\ (watch.call = "createGravityWell")
       ~> (watch.call = "createGravityWell" /\ watch.returned)

\* every candidate was too near the ship: the well is at the last one
C36_Witness ==
  /\ watch.call = "createGravityWell"
  /\ watch.returned
  /\ watch.attempts = createGravityWell_maxAttempts
  /\ distance(watch.well[1].position, watch.avoidPosition)
       < gravityWell_spawnMinDistanceFromShip

\* C37: wrapEntity leaves a coordinate that is at most radius outside the
\* field as it is, takes one below -radius to size + radius and one above
\* size + radius to -radius; its result lies within -radius..size + radius
\* in x and in y, and wrapEntity applied to its result changes nothing.
C37_WrapOnceAndForAll ==
  watch.call = "wrapEntity" =>
    LET r == watch.radius
        Wrapped(c, d, size) ==
          /\ (c >= -r /\ c <= size + r) => d = c
          /\ c < -r => d = size + r
          /\ c > size + r => d = -r
          /\ d \in (-r)..(size + r)
    IN /\ Wrapped(watch.before[1], watch.after[1], screen_width)
       /\ Wrapped(watch.before[2], watch.after[2], screen_height)
       /\ watch.again = watch.after

\* an entity past the left outer line and exactly on the bottom one: x is
\* wrapped to the right outer line and y stays
C37_Witness ==
  /\ watch.call = "wrapEntity"
  /\ watch.before[1] < -watch.radius
  /\ watch.before[2] = screen_height + watch.radius
  /\ watch.after = <<screen_width + watch.radius, screen_height + watch.radius>>

\* C38: the player's bullets are listed in the order they were fired and
\* age by the playing dt, so of two neighbours in the list the later has at
\* least bullet_fireCooldown more lifetime left; a playing frame fires a
\* bullet (the one that has aged once) only if the fire cooldown has run
\* out by then, the respawn countdown was over or ends in this frame, and
\* the ship is active or is reset by this frame; it then restarts the
\* cooldown.
C38_ShotsKeepTheirDistance ==
  /\ [](\A k \in 1..(Len(game.bullets) - 1) :
          game.bullets[k + 1].lifetime - game.bullets[k].lifetime
            >= bullet_fireCooldown)
  /\ [][ game.state = "playing" /\ playClock' = playClock + timing_maxDeltaTime =>
          LET dt == timing_maxDeltaTime
              fired == \E k \in 1..Len(game'.bullets) :
                         game'.bullets[k].lifetime = bullet_lifetime - dt
              respawns == game.respawnTimer > 0 /\ game.respawnTimer <= dt
          IN fired => /\ game.fireCooldown <= dt
                      /\ game.respawnTimer <= dt
                      /\ game.ship.isActive \/ respawns
                      /\ game'.fireCooldown = bullet_fireCooldown
      ]_vars

\* the ship came back and fired in the same frame, and has now fired again
\* as soon as the cooldown allowed: its two bullets are the only ones
C38_Witness ==
  /\ game.state = "playing"
  /\ game.lives < initialState_lives
  /\ game.ship.isActive
  /\ Len(game.bullets) = 2
  /\ game.bullets[2].lifetime = bullet_lifetime - timing_maxDeltaTime
  /\ game.ship.invulnerableTime
       = ship_invulnerabilityOnSpawn - (bullet_lifetime - game.bullets[1].lifetime)

\* C39: the frame in which the last life is lost leads to the score entry
\* exactly when the cached list is shorter than displayCount or the score
\* is strictly greater than the last listed score, and otherwise to
\* gameOver with the whole return countdown ahead; one of the two happens
C39_LastLifeRoutes ==
  [][ game.state = "playing" /\ game.lives = 1 /\ game'.lives = 0 =>
        LET qualifies == \/ Len(hsm.scores) < highScores_displayCount
                         \/ game.score > hsm.scores[Len(hsm.scores)]
        IN /\ game'.state \in {"submitScore", "gameOver"}
           /\ game'.state = "submitScore" <=> qualifies
           /\ game'.state = "submitScore" => textInput'.active
           /\ game'.state = "gameOver" =>
                 /\ game'.gameOverTimer = timing_gameOverReturnDelay
                 /\ ~textInput'.active
           /\ game'.finalScore = game.score ]_vars

\* a score above the lowest of a full table has led to the score entry
C39_Witness ==
  /\ game.state = "submitScore"
  /\ game.lives = 0
  /\ Len(hsm.scores) = highScores_displayCount
  /\ game.finalScore > hsm.scores[Len(hsm.scores)]

\* C40: a frame in start adds dt to the timer and shows the score table,
\* timer at 0, once menuDisplayDuration is reached; a frame in
\* viewingScores does the same towards start with scoresDisplayDuration;
\* a frame that does not switch begins a game when a start press is
\* pending and consumes it; and as long as no start press is registered
\* the menu and the score table are each shown again and again
C40_MenuAlternates ==
  /\ [][ game.state \in {"start", "viewingScores"} /\ game' # game =>
          \E dt \in 1..timing_maxDeltaTime :
            LET t == game.menuTimer + dt
                duration == IF game.state = "start" THEN MenuDisplayDuration
                            ELSE ScoresDisplayDuration
                other == IF game.state = "start" THEN "viewingScores" ELSE "start"
            IN IF t >= duration
               THEN /\ game'.state = other
                    /\ game'.menuTimer = 0
                    /\ input' = input
               ELSE IF input.startPressed
               THEN game'.state = "playing" /\ ~input'.startPressed
               ELSE game' = [game EXCEPT !.menuTimer = t] ]_vars
  /\ [](~input.startPressed) =>
       ([]<>(game.state = "start") /\ []<>(game.state = "viewingScores"))

\* the menu is shown again after the score table, whose showing asked for
\* the expired cache to be refreshed
C40_Witness ==
  /\ game.state = "start"
  /\ game.menuTimer > 0
  /\ hsm.loaded
  /\ async.fetch = 1

====
